---- MODULE Spec2Model ----
(***************************************************************************)
(* A model of the dragoncurses scheduler (dragoncurses/loop.py), of the    *)
(* component registration protocol and the popover menu chain              *)
(* (dragoncurses/component.py), of the press/release mouse decoder and of  *)
(* ListComponent's input dispatch.                                         *)
(*                                                                         *)
(* The specifications of the module:                                       *)
(*   Spec          the scheduler cycle: scene transition, tick pass,       *)
(*                 render pass, input dispatch, with the overlay registry  *)
(*   SpecDispatch  the input dispatch of one cycle over a registry of      *)
(*                 application panes                                       *)
(*   SpecMouse     the mouse decoding of MainLoop.run                      *)
(*   SpecList      ListComponent.handle_input over a list of child results *)
(*   SpecRender, SpecPlace, SpecHit, SpecLabel, SpecGuard                  *)
(*                 rendering, placement, hit testing and the setters of    *)
(*                 the widgets                                             *)
(*   SpecRegistry  register_component and unregister_component             *)
(*   SpecClip, SpecWrap, SpecFmt, SpecColor, SpecFault                     *)
(*                 RenderContext: clip, word wrap, formatted strings,      *)
(*                 colour pairs, driver errors                             *)
(*   SpecLayout    the layout of ListComponent.render                      *)
(*   SpecWrapLoop  the loop of the word wrap, one turn per step            *)
(*   SpecComposite, SpecDialog                                             *)
(*                 handle_input of the composite widgets; the dialog box   *)
(*                 as newest overlay                                       *)
(*   SpecClick     the mouse decoder with the clicks of a press counted    *)
(*   SpecExit      the scheduler under exit() and change_scene             *)
(*   SpecTextInput TextInputComponent: keys, setters, render               *)
(*   SpecLocks     the component locks under a render thread and a setter  *)
(*                 thread                                                  *)
(***************************************************************************)
EXTENDS Integers, Sequences, FiniteSets, TLC

\* ------------------------------------------------------------------------
\* Bounds of the model
\* ------------------------------------------------------------------------
\* largest num_ticks of one cycle
MaxTicks == 1
\* the ghost counter of detach() calls saturates here
MaxDetach == 2
\* __close invocations allowed to one cascade before it counts as runaway
MaxCloseCalls == 12
\* the ghost counter of change_scene calls of one cycle saturates here
MaxRequests == 2

\* the clock of the mouse decoder stops here (in half seconds)
MaxTime == 2
\* most children of the ListComponent
MaxKids == 3
\* the sides of the window a widget is rendered into range over 1..MaxSide
MaxSide == 4
\* a stored overlay location starts at 0..MaxOff and is MaxExt lines and
\* columns large; the button is put at 0 or MaxOff
MaxOff == 1
MaxExt == 2
\* the coordinates of a mouse event and of a component's location range
\* over 0..MaxXY
MaxXY == 2
\* most entries of the registry under calls of any arguments
MaxReg == 2
\* the strings that are wrapped have at most MaxLen characters, the
\* surface is 1..MaxW columns wide, the draw starts at 0..MaxStart
MaxLen == 5
MaxW == 3
MaxStart == 2
\* the strings whose wrap loop is followed turn by turn have at most
\* MaxLoopLen characters
MaxLoopLen == 4
\* a text input holds at most MaxText characters, and its cursor is set
\* to -1..MaxText + 1
MaxText == 3
\* the clicks of one press are counted up to MaxClicks
MaxClicks == 2
\* the surface a ListComponent lays its children out in has 0..MaxExtent
\* lines or columns along the list and 1..MaxAcross across it; a given
\* size is 0..MaxGiven
MaxExtent == 9
MaxAcross == 2
MaxGiven == 2
\* a formatted string is made of up to MaxTokens pieces
MaxTokens == 4
\* __get_color is followed until the table holds MaxPairs colour pairs
MaxPairs == 3
\* the text of a label wraps into 1..MaxLines lines
MaxLines == 2
\* a dialog has 1..MaxOptions options
MaxOptions == 3

\* ------------------------------------------------------------------------
\* Program constants
\* ------------------------------------------------------------------------
\* self.__closedelay = 12
CloseDelay == 12
\* the click window "< 1.0" seconds, in the half seconds the clock counts
ClickTimeout == 2

None == "None"
ExitScene == "Exit"
SceneTypes == {"WelcomeScene", "TestScene"}

\* The objects of one scene: the component returned by Scene.create() and a
\* button laid out inside it, a dialog box the scene opens as an overlay,
\* application-defined panes registered as overlays, and a popover menu with
\* a submenu and a submenu of that.
Menus == {"root", "sub", "leaf"}
Panes == {"pane", "pane2"}
Comps == {"base", "btn", "dlg"} \cup Panes \cup Menus

\* children a composite holds privately and attaches/detaches from its own
\* attach()/detach() (ListComponent.attach / detach)
LayoutKids(c) == IF c = "base" THEN <<"btn">> ELSE <<>>

\* the menu an expandable entry of m opens (the options lists are fixed when
\* the root menu is built)
SubmenuOf(m) == IF m = "root" THEN "sub" ELSE IF m = "sub" THEN "leaf" ELSE None

VARIABLES
    \* MainLoop
    scene, next_scene, components, registered_components, dirty,
    \* position of MainLoop.run and its loop variables
    pc, ticksDone, event, inputQueue, handled, deferred,
    \* Component
    children, location,
    \* PopoverMenuComponent
    built, pparent, pchildren, closecb, closedelay, animated,
    \* history of calls (not program state)
    attachedNow, detachCalls, detachLog, destroyed, constructed, requests,
    firstRequest, exitCalled, staleTick, staleRender, offered, deferredRun, sceneAsked,
    closeRunaway, selected, lastRequest, callbackLog, ticksSince, received,
    renderLog, sawDirty, raised, regCall,
    \* mouse decoder (SpecMouse)
    mousestate, now, mouseEvent, lastInput,
    \* ListComponent.handle_input (SpecList)
    lcKids, lcIdx, lcDeferred, lcCalled, lcResult, lcCbIdx, lcCbCalled, lcCbResult,
    \* a BorderComponent around a ListComponent of two LabelComponents
    \* (SpecRender): the fields, and what the last step ran (not program state)
    wText, wRendered, wVisible, wDrawn, wRan, wSet,
    \* the render phase with its geometry (SpecPlace): the screen, the
    \* registry, Component.location, the position of the pass (0 between
    \* two passes, else the index of the next registry entry), and the
    \* bounds _render was called with in this pass (not program state)
    plScreen, plReg, plLoc, plPc, plLog,
    \* a component with the Hotkeyable and Clickable behaviours (SpecHit):
    \* location, hotkey, whether a callback is set; and of the last
    \* _handle_input call (not program state): the event, the event
    \* handle_input saw, the callback invocations, what the callback
    \* answered, the returned value
    hLoc, hHotkey, hCallback, hEvent, hSeen, hCalls, hAnswer, hResult,
    \* a LabelComponent rendered by the main loop while another thread calls
    \* its setters (SpecLabel): __text, __visible, __rendered, the holder of
    \* self.lock, the position of the two threads, the setter's argument,
    \* what the render in progress has read, and what the last completed
    \* render drew (not program state)
    lText, lVisible, lRendered, lLock, lPcR, lPcS, lArg, lRead, lDrawn,
    \* a SelectInputComponent the main loop renders and offers input to
    \* while another thread calls its setters (SpecGuard): __selected,
    \* __focused, __changed, the holder of self.lock, the position of the
    \* setter thread and of the main loop, the setter's argument, the value
    \* the statement in progress has computed, and what the last render drew
    \* (not program state)
    siSelected, siFocused, siVisible, siChanged, siLock, siPcS, siPcH, siArg,
    siRead, siTarget, siDrawn,
    \* BoundingRectangle.clip (SpecClip): the rectangle, the bounds, the result
    clA, clB, clOut,
    \* RenderContext.__get_wrap_points (SpecWrap): the string, the start
    \* position, bounds.width, whether the call was made, and its result
    wpString, wpStartY, wpStartX, wpWidth, wpDone, wpPoints,
    \* the locals string and processed of __get_wrap_points while its
    \* loop runs (SpecWrapLoop)
    wpRest, wpProcessed,
    \* ListComponent.render (SpecLayout): the number of components, the
    \* direction, whether a size is given and which, __visible, the height
    \* and width of the surface, whether render was called, and the bounds
    \* _render of the children was called with (not program state)
    lyN, lyDir, lyGiven, lySize, lyVisible, lyHeight, lyWidth, lyDone, lyAllot,
    \* formatted_string_length (SpecFmt): the string it is called with, as
    \* a sequence of characters, whether it was called, and what it returned
    fsString, fsDone, fsLength,
    \* RenderContext.__color_table, shared by every RenderContext; the pairs
    \* of the driver (pair id -> the two colours init_pair set), how often
    \* init_pair succeeded for each key, and the last __get_color call (the
    \* last two are not program state)
    colorTable, crPairs, crInits, crLast,
    \* Component._render of one component with a driver that may fail
    \* (SpecFault): where the call is, the component (its class, whether a
    \* menu entry is expandable, the lines of a label), its __rendered, its
    \* lock, the driver calls render still has to make, and, not program
    \* state, the driver calls made with their success and how _render ended
    ftPc, ftKind, ftExpandable, ftLines, ftRendered, ftHeld, ftScript, ftLog,
    ftOutcome,
    \* handle_input of a composite (SpecComposite): its class, what the
    \* children it forwards to return, the event, whether a dialog has an
    \* escape callback, the selected tab and the number of tabs, where the
    \* call is, what it returned, how many children were asked, the children
    \* whose DeferredInput it kept, and (not program state) the callbacks
    \* that were called, what the composite's own callback returned and
    \* whether the caller found the event claimed before the callbacks
    cpKind, cpKids, cpEvent, cpEscape, cpSelected, cpTabs, cpPc, cpResult,
    cpAsked, cpDeferred, cpCalls, cpCbResult, cpClaimed,
    \* a DialogBoxComponent that is the newest overlay, over one base
    \* component (SpecDialog): the names of its options, in order, the
    \* escape_option, whether it was rendered, the event being dispatched,
    \* where the dispatch is, whether the event is handled, and (not program
    \* state) the option callbacks called with the name they were given,
    \* the components whose handle_input was called, and whether
    \* Scene.handle_input was called
    dgOptions, dgEscape, dgRendered, dgEvent, dgPc, dgHandled, dgCalls,
    dgOffered, dgSceneAsked,
    \* TextInputComponent (SpecTextInput): __text as a sequence of characters,
    \* __cursor, __focused, __max_length, __changed, and the last call made
    \* with the cursor and the length of the text it found (not program
    \* state)
    tiText, tiCursor, tiFocused, tiMax, tiChanged, tiLast,
    \* the component locks (SpecLocks): the thread that holds each lock, and
    \* for the scheduler thread and an external thread the lock operations
    \* the call it is in has still to make
    lkHolder, lkProg,
    \* an observer of the mouse decoder (SpecClick): for every button the
    \* number of clicks the press recorded for it has given (not program
    \* state)
    clicks

loopVars == <<scene, next_scene, components, registered_components, dirty,
              pc, ticksDone, event, inputQueue, handled, deferred,
              children, location,
              built, pparent, pchildren, closecb, closedelay, animated,
              attachedNow, detachCalls, detachLog, destroyed, constructed,
              requests, firstRequest, exitCalled, staleTick, staleRender, offered,
              deferredRun, sceneAsked, closeRunaway, selected, lastRequest,
              callbackLog, ticksSince, received, renderLog, sawDirty, raised,
              regCall>>
mouseVars == <<mousestate, now, mouseEvent, lastInput>>
listVars == <<lcKids, lcIdx, lcDeferred, lcCalled, lcResult, lcCbIdx,
              lcCbCalled, lcCbResult>>
renderVars == <<wText, wRendered, wVisible, wDrawn, wRan, wSet>>
placeVars == <<plScreen, plReg, plLoc, plPc, plLog>>
hitVars == <<hLoc, hHotkey, hCallback, hEvent, hSeen, hCalls, hAnswer, hResult>>
labelVars == <<lText, lVisible, lRendered, lLock, lPcR, lPcS, lArg, lRead, lDrawn>>
guardVars == <<siSelected, siFocused, siVisible, siChanged, siLock, siPcS,
               siPcH, siArg, siRead, siTarget, siDrawn>>
clipVars == <<clA, clB, clOut>>
wrapVars == <<wpString, wpStartY, wpStartX, wpWidth, wpDone, wpPoints, wpRest,
             wpProcessed>>
layVars == <<lyN, lyDir, lyGiven, lySize, lyVisible, lyHeight, lyWidth, lyDone,
            lyAllot>>
fmtVars == <<fsString, fsDone, fsLength>>
colorVars == <<colorTable, crPairs, crInits, crLast>>
faultVars == <<ftPc, ftKind, ftExpandable, ftLines, ftRendered, ftHeld, ftScript,
              ftLog, ftOutcome>>
cpVars == <<cpKind, cpKids, cpEvent, cpEscape, cpSelected, cpTabs, cpPc, cpResult,
           cpAsked, cpDeferred, cpCalls, cpCbResult, cpClaimed>>
dgVars == <<dgOptions, dgEscape, dgRendered, dgEvent, dgPc, dgHandled, dgCalls,
           dgOffered, dgSceneAsked>>
tiVars == <<tiText, tiCursor, tiFocused, tiMax, tiChanged, tiLast>>
lkVars == <<lkHolder, lkProg>>
ckVars == <<clicks>>
moreVars == <<cpVars, dgVars, tiVars, lkVars, ckVars>>
extVars == <<guardVars, clipVars, wrapVars, layVars, fmtVars, colorVars, faultVars, moreVars>>
widgetVars == <<renderVars, placeVars, hitVars, labelVars, extVars>>
coreVars == <<loopVars, mouseVars, listVars, renderVars, placeVars, hitVars,
              labelVars>>
vars == <<loopVars, mouseVars, listVars, widgetVars>>

\* ------------------------------------------------------------------------
\* Sequence helpers
\* ------------------------------------------------------------------------
RECURSIVE SeqFilterOut(_, _)
SeqFilterOut(s, x) ==
    IF s = <<>> THEN <<>>
    ELSE IF Head(s) = x THEN SeqFilterOut(Tail(s), x)
    ELSE <<Head(s)>> \o SeqFilterOut(Tail(s), x)

RECURSIVE Reverse(_)
Reverse(s) == IF s = <<>> THEN <<>> ELSE Reverse(Tail(s)) \o <<Head(s)>>

Range(s) == {s[i] : i \in 1..Len(s)}

Count(s, x) == Cardinality({i \in 1..Len(s) : s[i] = x})

\* the components of the registry entries, in registry order
RegComps(reg) == [i \in 1..Len(reg) |-> reg[i].c]

Registered(c) == c \in Range(RegComps(registered_components))

\* ------------------------------------------------------------------------
\* The state the handlers read and write, as one record: an operation of
\* the program is an operator from such a record to the next one.
\* ------------------------------------------------------------------------
\* no register_component call was made in the step
NoCall == [c |-> None, loc |-> FALSE, parent |-> None]

World ==
    [scene |-> scene, next |-> next_scene, reg |-> registered_components,
     dirty |-> dirty, children |-> children, location |-> location,
     built |-> built, pparent |-> pparent, pchildren |-> pchildren,
     closecb |-> closecb, closedelay |-> closedelay, animated |-> animated,
     attachedNow |-> attachedNow, dcalls |-> detachCalls, dlog |-> <<>>,
     constructed |-> constructed, requests |-> requests,
     firstRequest |-> firstRequest, exitCalled |-> exitCalled,
     calls |-> 0, runaway |-> closeRunaway, selected |-> None,
     lastRequest |-> lastRequest, stale |-> {},
     cbs |-> <<>>, since |-> ticksSince, received |-> None,
     raised |-> FALSE, call |-> NoCall]

Commit(w) ==
    /\ next_scene' = w.next
    /\ registered_components' = w.reg
    /\ dirty' = w.dirty
    /\ children' = w.children
    /\ location' = w.location
    /\ built' = w.built
    /\ pparent' = w.pparent
    /\ pchildren' = w.pchildren
    /\ closecb' = w.closecb
    /\ closedelay' = w.closedelay
    /\ animated' = w.animated
    /\ attachedNow' = w.attachedNow
    /\ detachCalls' = w.dcalls
    /\ detachLog' = w.dlog
    /\ constructed' = w.constructed
    /\ requests' = w.requests
    /\ firstRequest' = w.firstRequest
    /\ exitCalled' = w.exitCalled
    /\ closeRunaway' = w.runaway
    /\ selected' = w.selected
    /\ lastRequest' = w.lastRequest
    /\ callbackLog' = w.cbs
    /\ ticksSince' = w.since
    /\ received' = w.received
    /\ renderLog' = <<>>
    /\ sawDirty' = FALSE
    /\ raised' = w.raised
    /\ regCall' = w.call

\* ------------------------------------------------------------------------
\* Component._attach / _detach
\* ------------------------------------------------------------------------
RECURSIVE AttachAll(_, _)
\* Component._attach, with the attach() of a composite attaching its layout
\* children
Attach(w, c) ==
    AttachAll([w EXCEPT !.children[c] = <<>>,
                        !.location[c] = FALSE,
                        !.attachedNow[c] = TRUE,
                        !.dcalls[c] = 0],
              LayoutKids(c))
AttachAll(w, cs) ==
    IF cs = <<>> THEN w ELSE AttachAll(Attach(w, Head(cs)), Tail(cs))

RECURSIVE DetachOrder(_, _)
RECURSIVE DetachOrderAll(_, _)
\* The detach() calls one c._detach() makes, in call order: the registered
\* children's first, then c's own detach(), which detaches layout children.
DetachOrder(w, c) ==
    DetachOrderAll(w, w.children[c]) \o <<c>> \o DetachOrderAll(w, LayoutKids(c))
DetachOrderAll(w, cs) ==
    IF cs = <<>> THEN <<>>
    ELSE DetachOrder(w, Head(cs)) \o DetachOrderAll(w, Tail(cs))

Bump(n) == IF n < MaxDetach THEN n + 1 ELSE n

RECURSIVE RecordDetach(_, _)
RecordDetach(w, order) ==
    IF order = <<>> THEN w
    ELSE RecordDetach([w EXCEPT !.dcalls[Head(order)] = Bump(@),
                                !.attachedNow[Head(order)] = FALSE,
                                !.dlog = Append(@, Head(order))],
                      Tail(order))

Detach(w, c) == RecordDetach(w, DetachOrder(w, c))

\* mutant: the loop that detaches is forgotten
DetachEach_Skipped(w, cs) == w

RECURSIVE DetachEach(_, _)
\* for component in cs: component._detach()
DetachEach(w, cs) ==
    IF cs = <<>> THEN w ELSE DetachEach(Detach(w, Head(cs)), Tail(cs))

\* ------------------------------------------------------------------------
\* MainLoop.register_component / unregister_component
\* ------------------------------------------------------------------------
\* mutant: the check of the arguments is missing
RegisterComponent_Unchecked(w, c, loc, parent) ==
    IF w.scene # None
    THEN [Attach(w, c) EXCEPT
            !.reg = Append(@, [c |-> c, loc |-> loc, parent |-> parent]),
            !.dirty = TRUE]
    ELSE w

\* loc is whether a location is given (not None); "raised" notes the
\* exception of line 119
RegisterComponent(w, c, loc, parent) ==
    IF parent # None /\ ~loc
    THEN [w EXCEPT !.raised = TRUE]
    ELSE IF w.scene # None
    THEN [Attach(w, c) EXCEPT
            !.reg = Append(@, [c |-> c, loc |-> loc, parent |-> parent]),
            !.dirty = TRUE]
    ELSE w

RECURSIVE RegWithout(_, _)
RegWithout(reg, c) ==
    IF reg = <<>> THEN <<>>
    ELSE IF Head(reg).c = c THEN RegWithout(Tail(reg), c)
    ELSE <<Head(reg)>> \o RegWithout(Tail(reg), c)

RECURSIVE DetachTimes(_, _, _)
DetachTimes(w, c, n) ==
    IF n = 0 THEN w ELSE DetachTimes([Detach(w, c) EXCEPT !.dirty = TRUE], c, n - 1)

UnregisterComponent(w, c) ==
    DetachTimes([w EXCEPT !.reg = RegWithout(@, c)], c, Count(RegComps(w.reg), c))

\* ------------------------------------------------------------------------
\* Component.register / unregister
\* ------------------------------------------------------------------------
CompRegister(w, self, c) ==
    [RegisterComponent(w, c, TRUE, self) EXCEPT !.children[self] = Append(@, c)]

CompUnregister(w, self, c) ==
    [UnregisterComponent(w, c) EXCEPT !.children[self] = SeqFilterOut(@, c)]

\* ------------------------------------------------------------------------
\* MainLoop.change_scene / exit
\* ------------------------------------------------------------------------
\* mutant: the guard "if self.__next_scene is None" is missing
ChangeScene_Unguarded(w, s) ==
    [w EXCEPT !.requests = IF @ < MaxRequests THEN @ + 1 ELSE @,
              !.firstRequest = IF w.requests = 0 THEN s ELSE @,
              !.lastRequest = s,
              !.next = s,
              !.constructed = @ + 1]

\* mutant: the overlays are dropped as soon as the change is requested
ChangeScene_Eager(w, s) ==
    [w EXCEPT !.requests = IF @ < MaxRequests THEN @ + 1 ELSE @,
              !.firstRequest = IF w.requests = 0 THEN s ELSE @,
              !.lastRequest = s,
              !.next = IF w.next = None THEN s ELSE @,
              !.constructed = IF w.next = None THEN @ + 1 ELSE @,
              !.reg = <<>>]

ChangeScene(w, s) ==
    LET counted == [w EXCEPT !.requests = IF @ < MaxRequests THEN @ + 1 ELSE @,
                             !.firstRequest = IF w.requests = 0 THEN s ELSE @,
                             !.lastRequest = s]
    IN IF w.next = None
       THEN [counted EXCEPT !.next = s, !.constructed = @ + 1]
       ELSE counted

\* mutant: exit() gives way to a pending request as change_scene does
Exit_Guarded(w) ==
    [w EXCEPT !.next = IF @ = None THEN ExitScene ELSE @, !.exitCalled = TRUE]

Exit(w) == [w EXCEPT !.next = ExitScene, !.exitCalled = TRUE]

\* ------------------------------------------------------------------------
\* PopoverMenuComponent
\* ------------------------------------------------------------------------
IsClosing(w, m) ==
    \/ w.closecb[m]
    \/ (w.pparent[m] # None /\ w.closecb[w.pparent[m]])
    \/ \E i \in 1..Len(w.pchildren[m]) : w.closecb[w.pchildren[m][i]]

RECURSIVE Close(_, _, _)
RECURSIVE CloseKids(_, _)
\* PopoverMenuComponent.__close; a cascade that makes more than MaxCloseCalls
\* calls is cut off and flagged
\* mutant: the close does not travel up to the parent
Close_SelfOnly(w, m, close_parent) ==
    IF w.calls >= MaxCloseCalls THEN [w EXCEPT !.runaway = TRUE]
    ELSE CloseKids(CompUnregister([w EXCEPT !.calls = @ + 1], m, m),
                   w.pchildren[m])

Close(w, m, close_parent) ==
    IF w.calls >= MaxCloseCalls THEN [w EXCEPT !.runaway = TRUE]
    ELSE LET w1 == CompUnregister([w EXCEPT !.calls = @ + 1], m, m)
             w2 == IF w1.pparent[m] # None /\ close_parent
                   THEN Close(w1, w1.pparent[m], TRUE)
                   ELSE w1
         IN CloseKids(w2, w2.pchildren[m])
CloseKids(w, ks) ==
    IF ks = <<>> THEN w
    ELSE CloseKids(Close([w EXCEPT !.pparent[Head(ks)] = None], Head(ks), TRUE),
                   Tail(ks))

\* PopoverMenuComponent(options, animated=...)
NewPopover(w, m, parent, anim) ==
    [w EXCEPT !.built = @ \cup {m},
              !.pparent[m] = parent,
              !.pchildren[m] = <<>>,
              !.closecb[m] = FALSE,
              !.closedelay[m] = 0,
              !.animated[m] = anim]

\* __new_menu, for button LEFT or KEY
NewMenu(w, m) ==
    LET k == SubmenuOf(m)
        w1 == CompRegister(NewPopover(w, k, m, w.animated[m]), m, k)
    IN [w1 EXCEPT !.pchildren[m] = Append(@, k)]

\* callback(self, option) of __cb and __closeaction: "selected" and the log
\* cbs note the menu whose selection callback is invoked
Callback(w, m) == [w EXCEPT !.selected = m, !.cbs = Append(@, m)]

\* __cb, for button LEFT or KEY; since[m] counts the calls of m.tick() since
\* the delayed close was scheduled
SelectEntry(w, m) ==
    IF IsClosing(w, m) THEN w
    ELSE IF w.animated[m]
         THEN [w EXCEPT !.closecb[m] = TRUE, !.closedelay[m] = CloseDelay,
                        !.since[m] = 0]
         ELSE Close(Callback(w, m), m, TRUE)

\* PopoverMenuComponent.tick
PopoverTick(w, m) ==
    LET w0 == IF w.closecb[m] /\ w.since[m] <= CloseDelay
              THEN [w EXCEPT !.since[m] = @ + 1]
              ELSE w
        w1 == IF w0.animated[m] /\ w0.closedelay[m] > 0
              THEN [w0 EXCEPT !.closedelay[m] = @ - 1]
              ELSE w0
    IN IF w1.closedelay[m] = 0 /\ w1.closecb[m]
       THEN [Close(Callback(w1, m), m, TRUE) EXCEPT !.closecb[m] = FALSE]
       ELSE w1

\* what the entries of menu m can make of an event: an entry is selected,
\* an expandable entry opens its submenu, an entry swallows the event (a
\* button other than LEFT), or no entry takes it
PopoverOutcomes(w, m, ev) ==
    LET canExpand == SubmenuOf(m) # None /\ SubmenuOf(m) \notin w.built
        hits == {"select"} \cup (IF canExpand THEN {"expand"} ELSE {})
    IN CASE ev = "key" -> hits \cup {"none"}
         [] ev = "mouse" -> hits \cup {"inert", "none"}
         [] OTHER -> {"none"}

\* mutant: a submenu that loses the focus closes its parent as well
PopoverHandle_CloseParent(w, m, ev, outcome) ==
    IF IsClosing(w, m) THEN <<w, "true">>
    ELSE LET w1 == CASE outcome = "select" -> SelectEntry(w, m)
                     [] outcome = "expand" -> NewMenu(w, m)
                     [] OTHER -> w
             h1 == outcome # "none"
         IN IF w1.pparent[m] # None
            THEN <<IF ev = "defocus" THEN Close(w1, m, TRUE) ELSE w1,
                   IF ev = "mouse" \/ h1 THEN "true" ELSE "false">>
            ELSE IF ~h1 /\ ev \in {"esc", "defocus"}
                 THEN <<Close(w1, m, TRUE), "true">>
                 ELSE <<w1, "true">>

\* PopoverMenuComponent.handle_input: <<next state, returned value>>, the
\* value one of "true", "false", "defer" (a DeferredInput)
PopoverHandle(w, m, ev, outcome) ==
    IF IsClosing(w, m) THEN <<w, "true">>
    ELSE LET w1 == CASE outcome = "select" -> SelectEntry(w, m)
                     [] outcome = "expand" -> NewMenu(w, m)
                     [] OTHER -> w
             h1 == outcome # "none"
         IN IF w1.pparent[m] # None
            THEN <<IF ev = "defocus" THEN Close(w1, m, FALSE) ELSE w1,
                   IF ev = "mouse" \/ h1 THEN "true" ELSE "false">>
            ELSE IF ~h1 /\ ev \in {"esc", "defocus"}
                 THEN <<Close(w1, m, TRUE), "true">>
                 ELSE <<w1, "true">>

\* ------------------------------------------------------------------------
\* DialogBoxComponent with the options of the scenes of example1.py:
\* "Yes" exits, "No" (the escape option) unregisters the dialog
\* ------------------------------------------------------------------------
DialogOutcomes(ev) ==
    CASE ev = "esc" -> {"no"}
      [] ev \in {"key", "mouse"} -> {"yes", "no", "none"}
      [] OTHER -> {"none"}

DialogHandle(w, ev, outcome) ==
    <<CASE outcome = "yes" -> Exit(w)
        [] outcome = "no" -> UnregisterComponent(w, "dlg")
        [] OTHER -> w,
      "true">>

\* ------------------------------------------------------------------------
\* Application components: the base tree (in TestScene with the button that
\* pops the menu, example1.py pop_menu) and the panes; what handle_input returns is
\* the application's choice among True, False and a DeferredInput
\* ------------------------------------------------------------------------
AppOutcomes(w, c, ev) ==
    {"true", "false", "defer"} \cup
    (IF /\ c = "base"
        /\ w.scene = "TestScene"
        /\ ev \in {"key", "mouse"}
        /\ "root" \notin w.built
     THEN {"popplain", "popanimated"} ELSE {})

AppHandle(w, c, ev, outcome) ==
    CASE outcome \in {"popplain", "popanimated"} ->
            <<CompRegister(NewPopover(w, "root", None, outcome = "popanimated"),
                           "btn", "root"), "true">>
      [] OTHER -> <<w, outcome>>

\* Component._handle_input: the event handle_input receives, or "skip" when
\* handle_input is not called and False is returned
Translate(w, c, ev, inside) ==
    IF ev = "mouse"
    THEN IF w.location[c] THEN (IF inside THEN "mouse" ELSE "defocus") ELSE "skip"
    ELSE ev

HandlerOutcomes(w, c, ev) ==
    IF c \in Menus THEN PopoverOutcomes(w, c, ev)
    ELSE IF c = "dlg" THEN DialogOutcomes(ev)
    ELSE AppOutcomes(w, c, ev)

HandleInput(w, c, ev, outcome) ==
    IF c \in Menus THEN PopoverHandle(w, c, ev, outcome)
    ELSE IF c = "dlg" THEN DialogHandle(w, ev, outcome)
    ELSE AppHandle(w, c, ev, outcome)

\* ------------------------------------------------------------------------
\* What the application's own code (Scene.tick, Scene.handle_input, the idle
\* callback) may ask of the scheduler
\* ------------------------------------------------------------------------
NoOp == [k |-> "nothing", a |-> None]

\* Scene.tick: nothing, a scene change, or the removal of an overlay the
\* application holds a reference to: the dialog or the menu it popped (the
\* submenus are objects private to PopoverMenuComponent; a pane stays for
\* the life of its scene)
TickOps(w) ==
    {NoOp}
    \cup {[k |-> "change", a |-> s] : s \in SceneTypes}
    \cup {[k |-> "unreg", a |-> c] : c \in Range(RegComps(w.reg)) \cap {"dlg", "root"}}

\* Scene.handle_input (example1.py): not handled, a scene change, or a new
\* overlay
InputOps(w) ==
    {NoOp}
    \cup {[k |-> "change", a |-> s] : s \in SceneTypes}
    \cup {[k |-> "open", a |-> c] : c \in {"dlg", "pane"} \ Range(RegComps(w.reg))}

ApplyOp(w, op) ==
    CASE op.k = "change" -> ChangeScene(w, op.a)
      [] op.k = "open" -> RegisterComponent(w, op.a, FALSE, None)
      [] op.k = "unreg" -> UnregisterComponent(w, op.a)
      [] OTHER -> w

\* ------------------------------------------------------------------------
\* Initial state: MainLoop.__init__ followed by execute()'s change_scene
\* ------------------------------------------------------------------------
FreshChildren == [c \in Comps |-> <<>>]
AllFalse(S) == [c \in S |-> FALSE]

Buttons == {"LEFT", "MIDDLE", "RIGHT"}
NoEvent == [kind |-> "none"]

\* self.__mousestate of MainLoop.__init__; the clock starts at 0
IdleMouse ==
    /\ mousestate = [b \in Buttons |-> [x |-> -1, y |-> -1, t |-> -1]]
    /\ now = 0
    /\ mouseEvent = NoEvent
    /\ lastInput = NoEvent

IdleList ==
    /\ lcKids = <<>>
    /\ lcIdx = 0
    /\ lcDeferred = <<>>
    /\ lcCalled = <<>>
    /\ lcResult = None
    /\ lcCbIdx = 0
    /\ lcCbCalled = <<>>
    /\ lcCbResult = None

\* the widgets as their constructors leave them
WLabels == <<"la", "lb">>
WComps == {"border", "list"} \cup {WLabels[i] : i \in 1..Len(WLabels)}
Texts == {"x", "y"}

InitRender ==
    /\ wText = [l \in {WLabels[i] : i \in 1..Len(WLabels)} |-> "x"]
    /\ wRendered = [l \in {WLabels[i] : i \in 1..Len(WLabels)} |-> FALSE]
    /\ wVisible = [c \in WComps |-> TRUE]
    /\ wDrawn = FALSE
    /\ wRan = {}
    /\ wSet = FALSE

\* BoundingRectangle(top=, bottom=, left=, right=)
Rect(t, b, l, r) == [top |-> t, bottom |-> b, left |-> l, right |-> r]
\* a location that is None
NoRect == Rect(-1, -1, -1, -1)

\* the components of the render phase: a base component with a button
\* inside it, and two overlays
PlBases == <<"b">>
PlOverlays == <<"o1", "o2">>
PlComps == {"b", "btn", "o1", "o2"}

\* the screen is tall and wide enough that every overlay begins inside it
ScreenSides == {3 * MaxOff + 1, 3 * MaxOff + 2}

InitPlace ==
    /\ plScreen = Rect(0, 3 * MaxOff + 1, 0, 3 * MaxOff + 1)
    /\ plReg = <<>>
    /\ plLoc = [c \in PlComps |-> NoRect]
    /\ plPc = 0
    /\ plLog = <<>>

\* Component._attach, and the class attributes callback = None and
\* hotkey = None
InitHit ==
    /\ hLoc = NoRect
    /\ hHotkey = None
    /\ hCallback = FALSE
    /\ hEvent = NoEvent
    /\ hSeen = NoEvent
    /\ hCalls = <<>>
    /\ hAnswer = FALSE
    /\ hResult = None

\* LabelComponent.__init__ and Component.__init__ (self.lock = Lock())
NoArg == [prop |-> None, val |-> None]
InitLabel ==
    /\ lText = "x"
    /\ lVisible = TRUE
    /\ lRendered = FALSE
    /\ lLock = None
    /\ lPcR = "idle"
    /\ lPcS = "idle"
    /\ lArg = NoArg
    /\ lRead = None
    /\ lDrawn = None

\* SelectInputComponent("a", ["a", "b"], focused=...) once the first
\* forced paint has rendered it
SiOptions == <<"a", "b">>
InitGuard ==
    /\ siSelected = SiOptions[1]
    /\ siFocused = TRUE
    /\ siVisible = TRUE
    /\ siChanged = FALSE
    /\ siLock = None
    /\ siPcS = "idle"
    /\ siPcH = "idle"
    /\ siArg = NoArg
    /\ siRead = FALSE
    /\ siTarget = None
    /\ siDrawn = [selected |-> SiOptions[1], focused |-> TRUE, visible |-> TRUE]

\* no call of BoundingRectangle.clip was made
IdleClip == clA = NoRect /\ clB = NoRect /\ clOut = NoRect
IdleWrap ==
    /\ wpString = <<>> /\ wpStartY = 0 /\ wpStartX = 0 /\ wpWidth = 1
    /\ wpDone = FALSE /\ wpPoints = <<>> /\ wpRest = <<>> /\ wpProcessed = 0
IdleLay ==
    /\ lyN = 0 /\ lyDir = "top_to_bottom" /\ lyGiven = FALSE /\ lySize = 0
    /\ lyVisible = TRUE /\ lyHeight = 0 /\ lyWidth = 0 /\ lyDone = FALSE
    /\ lyAllot = <<>>
IdleFmt == fsString = <<>> /\ fsDone = FALSE /\ fsLength = 0
Colors == {"NONE", "RED", "BLUE"}

\* colorkey of __get_color
ColorKey(forecolor, backcolor) == forecolor \o ":" \o backcolor

ColorKeys == {ColorKey(f, b) : f, b \in Colors}

NoLookup == [surface |-> None, fore |-> None, back |-> None, id |-> 0,
             cached |-> FALSE, raised |-> FALSE]

\* the class attribute __color_table; the driver has pair 0 only
InitColor ==
    /\ colorTable = [k \in {"NONE"} |-> 0]
    /\ crPairs = [i \in {} |-> <<0, 0>>]
    /\ crInits = [k \in ColorKeys |-> 0]
    /\ crLast = NoLookup
\* no component constructed yet
InitFault ==
    /\ ftPc = "idle" /\ ftKind = None /\ ftExpandable = FALSE /\ ftLines = 0
    /\ ftRendered = FALSE /\ ftHeld = FALSE /\ ftScript = <<>> /\ ftLog = <<>>
    /\ ftOutcome = None

IdleComposite ==
    /\ cpKind = None /\ cpKids = <<>> /\ cpEvent = None /\ cpEscape = FALSE
    /\ cpSelected = 0 /\ cpTabs = 0 /\ cpPc = "idle" /\ cpResult = None
    /\ cpAsked = 0 /\ cpDeferred = <<>> /\ cpCalls = <<>> /\ cpCbResult = None
    /\ cpClaimed = FALSE
IdleDialog ==
    /\ dgOptions = <<>> /\ dgEscape = None /\ dgRendered = FALSE
    /\ dgEvent = NoEvent /\ dgPc = "idle" /\ dgHandled = FALSE
    /\ dgCalls = <<>> /\ dgOffered = <<>> /\ dgSceneAsked = FALSE
NoCallYet == [op |-> "none", cursor |-> 0, len |-> 0]
InitTextInput ==
    /\ tiText = <<>> /\ tiCursor = 0 /\ tiFocused = FALSE /\ tiMax = -1
    /\ tiChanged = TRUE /\ tiLast = NoCallYet
Threads == {"sched", "ext"}
Locks == {"tab", "button", "border", "padding", "label", "tabborder", "content"}
InitLocks ==
    /\ lkHolder = [l \in Locks |-> "none"]
    /\ lkProg = [t \in Threads |-> <<>>]
InitClicks == clicks = [b \in Buttons |-> 0]
IdleMore == IdleComposite /\ IdleDialog /\ InitTextInput /\ InitLocks /\ InitClicks

InitExt ==
    /\ InitGuard /\ IdleClip /\ IdleWrap /\ IdleLay /\ IdleFmt /\ InitColor
    /\ InitFault /\ IdleMore

InitCoreWidgets == InitRender /\ InitPlace /\ InitHit /\ InitLabel
InitWidgets == InitCoreWidgets /\ InitExt

InitLoop ==
    /\ scene = None
    /\ next_scene \in SceneTypes
    /\ components = <<>>
    /\ registered_components = <<>>
    /\ dirty = FALSE
    /\ pc = "top"
    /\ ticksDone = 0
    /\ event = None
    /\ inputQueue = <<>>
    /\ handled = FALSE
    /\ deferred = <<>>
    /\ children = FreshChildren
    /\ location = AllFalse(Comps)
    /\ built = {}
    /\ pparent = [m \in Menus |-> None]
    /\ pchildren = [m \in Menus |-> <<>>]
    /\ closecb = AllFalse(Menus)
    /\ closedelay = [m \in Menus |-> 0]
    /\ animated = AllFalse(Menus)
    /\ attachedNow = AllFalse(Comps)
    /\ detachCalls = [c \in Comps |-> 0]
    /\ detachLog = <<>>
    /\ destroyed = FALSE
    /\ constructed = 1
    /\ requests = 1
    /\ firstRequest = next_scene
    /\ exitCalled = FALSE
    /\ staleTick = {}
    /\ staleRender = {}
    /\ offered = <<>>
    /\ deferredRun = <<>>
    /\ sceneAsked = FALSE
    /\ closeRunaway = FALSE
    /\ selected = None
    /\ callbackLog = <<>>
    /\ ticksSince = [m \in Menus |-> 0]
    /\ received = None
    /\ raised = FALSE
    /\ regCall = NoCall
    /\ renderLog = <<>>
    /\ sawDirty = FALSE
    /\ lastRequest = next_scene

Init == InitLoop /\ IdleMouse /\ IdleList /\ InitWidgets

\* ------------------------------------------------------------------------
\* MainLoop.run, top of the cycle: the scene transition
\* ------------------------------------------------------------------------
\* lines 143-160: destroy the old scene, detach overlays and base
\* components, transfer the next scene over, empty the registry
TearDown ==
    /\ pc = "top"
    /\ UNCHANGED <<mouseVars, listVars, widgetVars, ticksDone>>
    /\ next_scene # None
    /\ LET w1 == DetachEach(World, RegComps(registered_components))
           w2 == DetachEach(w1, components)
       IN Commit([w2 EXCEPT !.next = None, !.reg = <<>>])
    /\ destroyed' = (scene # None)
    /\ scene' = next_scene
    /\ pc' = "create"
    /\ UNCHANGED <<components, event, inputQueue, handled,
                   deferred, staleTick, staleRender, offered, deferredRun,
                   sceneAsked>>

\* the state of the objects of a scene nothing has been attached in
FreshWorld ==
    [World EXCEPT !.children = FreshChildren, !.location = AllFalse(Comps),
                  !.built = {}, !.pparent = [m \in Menus |-> None],
                  !.pchildren = [m \in Menus |-> <<>>],
                  !.closecb = AllFalse(Menus),
                  !.closedelay = [m \in Menus |-> 0],
                  !.animated = AllFalse(Menus),
                  !.since = [m \in Menus |-> 0],
                  !.attachedNow = AllFalse(Comps),
                  !.dcalls = [c \in Comps |-> 0],
                  !.constructed = 0, !.requests = 0, !.firstRequest = None,
                  !.lastRequest = None, !.exitCalled = FALSE]

\* lines 162-176: the exit sentinel empties everything, any other scene
\* creates its component and attaches it
CreateAttach ==
    /\ pc = "create"
    /\ UNCHANGED <<mouseVars, listVars, widgetVars, ticksDone>>
    /\ IF scene = ExitScene
       THEN /\ scene' = None
            /\ components' = <<>>
            /\ Commit([FreshWorld EXCEPT !.dirty = TRUE])
       ELSE /\ scene' = scene
            /\ components' = <<"base">>
            /\ Commit([Attach(FreshWorld, "base") EXCEPT !.dirty = TRUE])
    /\ destroyed' = FALSE
    /\ staleTick' = {}
    /\ staleRender' = {}
    /\ pc' = "tick"
    /\ UNCHANGED <<event, inputQueue, handled, deferred,
                   offered, deferredRun, sceneAsked>>

\* ------------------------------------------------------------------------
\* MainLoop.run, tick phase (lines 178-189)
\* ------------------------------------------------------------------------
\* the tick is not due, or range(num_ticks) is exhausted
TickSkip ==
    /\ pc = "tick"
    /\ UNCHANGED <<mouseVars, listVars, widgetVars>>
    /\ pc' = "render"
    /\ ticksDone' = 0
    /\ UNCHANGED <<scene, next_scene, components, registered_components, dirty,
                   event, inputQueue, handled, deferred,
                   children, location, built, pparent, pchildren, closecb,
                   closedelay, animated, attachedNow, detachCalls, destroyed,
                   constructed, requests, firstRequest, exitCalled,
                   staleRender, offered, deferredRun, sceneAsked,
                   closeRunaway, lastRequest>>
    /\ staleTick' = {}
    /\ detachLog' = <<>>
    /\ selected' = None
    /\ callbackLog' = <<>>
    /\ received' = None
    /\ raised' = FALSE
    /\ regCall' = NoCall
    /\ renderLog' = <<>>
    /\ sawDirty' = FALSE
    /\ UNCHANGED ticksSince

RECURSIVE TickAll(_, _)
\* "for (component, _, _) in self.registered_components: component.tick()"
\* over the list q the registry was when the loop began; w.stale collects
\* the components whose tick() is called while they are detached
TickAll(w, q) ==
    IF q = <<>> THEN w
    ELSE LET c == Head(q)
             w1 == [w EXCEPT !.stale = IF w.attachedNow[c] THEN @ ELSE @ \cup {c}]
         IN TickAll(IF c \in Menus THEN PopoverTick(w1, c) ELSE w1, Tail(q))

\* One more pass of the loop over range(num_ticks) begins: scene.tick(),
\* then the tick of every base component.
TickScene ==
    /\ pc = "tick"
    /\ UNCHANGED <<mouseVars, listVars, widgetVars>>
    /\ ticksDone < MaxTicks
    /\ ticksDone' = ticksDone + 1
    /\ \E op \in (IF scene = None THEN {NoOp} ELSE TickOps(World)) :
          LET w == ApplyOp(World, op)
          IN /\ Commit(w)
             /\ staleTick' = {c \in Range(components) : ~w.attachedNow[c]}
    /\ pc' = "tickreg"
    /\ UNCHANGED <<scene, components, event, inputQueue, handled,
                   deferred, destroyed, staleRender, offered, deferredRun,
                   sceneAsked>>

\* the pass ends with the tick of every overlay of the registry
TickOverlays ==
    /\ pc = "tickreg"
    /\ UNCHANGED <<mouseVars, listVars, widgetVars, ticksDone>>
    /\ LET w == TickAll(World, RegComps(registered_components))
       IN /\ Commit(w)
          /\ staleTick' = w.stale
    /\ pc' = "tick"
    /\ UNCHANGED <<scene, components, event, inputQueue, handled,
                   deferred, destroyed, staleRender, offered, deferredRun,
                   sceneAsked>>

\* ------------------------------------------------------------------------
\* MainLoop.run, render phase (lines 191-224)
\* ------------------------------------------------------------------------
\* the components a render pass calls _render of: the base components with
\* their layout children, then every overlay of the registry
RECURSIVE WithLayoutKids(_)
WithLayoutKids(cs) ==
    IF cs = <<>> THEN <<>>
    ELSE <<Head(cs)>> \o WithLayoutKids(LayoutKids(Head(cs))) \o WithLayoutKids(Tail(cs))

RenderOrder == WithLayoutKids(components) \o RegComps(registered_components)

\* mutant: the pass is made in every cycle
ShouldRender_Always(forced, anyDirty) == TRUE

\* "self.__dirty or any(component.dirty ...) or any(component.dirty ...)"
ShouldRender(forced, anyDirty) == forced \/ anyDirty

\* anyDirty: whether some component reports dirty; the components are asked
\* only when the flag is not set, and any() of no component is False.
\* renderLog notes the components _render is called of, in call order.
Render ==
    /\ pc = "render"
    /\ UNCHANGED <<mouseVars, listVars, widgetVars, ticksDone>>
    /\ \E anyDirty \in (IF dirty \/ RenderOrder = <<>> THEN {FALSE} ELSE BOOLEAN) :
          /\ sawDirty' = anyDirty
          /\ IF ShouldRender(dirty, anyDirty)
             THEN /\ location' = [c \in Comps |-> location[c] \/ c \in Range(RenderOrder)]
                  /\ staleRender' = {c \in Range(RenderOrder) : ~attachedNow[c]}
                  /\ renderLog' = RenderOrder
             ELSE /\ UNCHANGED <<location, staleRender>>
                  /\ renderLog' = <<>>
    /\ dirty' = FALSE
    /\ pc' = "input"
    /\ UNCHANGED <<scene, next_scene, components, registered_components,
                   event, inputQueue, handled, deferred,
                   children, built, pparent, pchildren, closecb,
                   closedelay, animated, attachedNow, detachCalls, destroyed, constructed, requests, firstRequest, exitCalled,
                   staleTick, offered, deferredRun, sceneAsked, closeRunaway, lastRequest>>
    /\ detachLog' = <<>>
    /\ selected' = None
    /\ callbackLog' = <<>>
    /\ received' = None
    /\ raised' = FALSE
    /\ regCall' = NoCall
    /\ UNCHANGED ticksSince

\* ------------------------------------------------------------------------
\* MainLoop.run, input phase (lines 226-327)
\* ------------------------------------------------------------------------
\* the events the decoding of a key can give: none (no key, a mouse press, a
\* release that is no click), a resize, or an event to dispatch
Events == {"key", "esc", "mouse", "scroll"}

Poll ==
    /\ pc = "input"
    /\ UNCHANGED <<mouseVars, listVars, widgetVars, ticksDone>>
    /\ \E k \in (IF scene = None THEN {None} ELSE {None, "resize"} \cup Events) :
          /\ event' = IF k \in Events THEN k ELSE None
          /\ dirty' = IF k = "resize" THEN TRUE ELSE dirty
          /\ inputQueue' = IF k \in Events
                           THEN Reverse(RegComps(registered_components)) \o components
                           ELSE <<>>
          /\ pc' = IF k \in Events THEN "dispatch" ELSE "end"
    /\ handled' = FALSE
    /\ deferred' = <<>>
    /\ offered' = <<>>
    /\ deferredRun' = <<>>
    /\ sceneAsked' = FALSE
    /\ staleRender' = {}
    /\ UNCHANGED <<scene, next_scene, components, registered_components,
                   children, location, built, pparent, pchildren, closecb,
                   closedelay, animated, attachedNow, detachCalls, destroyed, constructed, requests, firstRequest, exitCalled,
                   staleTick, closeRunaway, lastRequest>>
    /\ detachLog' = <<>>
    /\ selected' = None
    /\ callbackLog' = <<>>
    /\ received' = None
    /\ raised' = FALSE
    /\ regCall' = NoCall
    /\ renderLog' = <<>>
    /\ sawDirty' = FALSE
    /\ UNCHANGED ticksSince

\* mutant: the loops do not stop once the event is handled
Bail_Never(h) == FALSE

\* "if handled: break" at the head of the two component loops
Bail(h) == h

\* mutant: the newest deferral is put first
Collect_InFront(defs, c) == <<c>> \o defs

\* deferred.append(_handled)
Collect(defs, c) == Append(defs, c)

\* where run() goes after a step of the two component loops
AfterOffer(h, queue, defs) ==
    IF queue # <<>> /\ ~Bail(h) THEN "dispatch"
    ELSE IF h THEN "end"
    ELSE IF defs # <<>> THEN "deferred"
    ELSE "scenein"

\* component._handle_input(event) of the next overlay or base component;
\* "received" notes the event its handle_input is called with
Offer ==
    /\ pc = "dispatch"
    /\ UNCHANGED <<mouseVars, listVars, widgetVars, ticksDone>>
    /\ inputQueue # <<>>
    /\ ~Bail(handled)
    /\ LET c == Head(inputQueue)
       IN \E inside \in BOOLEAN :
            LET ev == Translate(World, c, event, inside)
            IN \E outcome \in (IF ev = "skip" THEN {"skip"}
                               ELSE HandlerOutcomes(World, c, ev)) :
                 LET r == IF ev = "skip" THEN <<World, "false">>
                          ELSE HandleInput(World, c, ev, outcome)
                     defs == IF r[2] = "defer" THEN Collect(deferred, c)
                             ELSE deferred
                 IN /\ Commit([r[1] EXCEPT !.received = ev])
                    /\ handled' = IF r[2] = "defer" THEN handled ELSE r[2] = "true"
                    /\ deferred' = defs
                    /\ offered' = Append(offered, <<c, r[2]>>)
                    /\ pc' = AfterOffer(IF r[2] = "defer" THEN handled
                                         ELSE r[2] = "true",
                                         Tail(inputQueue), defs)
    /\ inputQueue' = Tail(inputQueue)
    /\ UNCHANGED <<scene, components, event,
                   destroyed, staleTick, staleRender, deferredRun, sceneAsked>>

\* handled = callback() of the next deferred callback; what the callback
\* returns is the choice of the component that made it
RunDeferred ==
    /\ pc = "deferred"
    /\ UNCHANGED <<mouseVars, listVars, widgetVars, ticksDone>>
    /\ deferred # <<>>
    /\ ~handled
    /\ \E r \in BOOLEAN :
          /\ handled' = r
          /\ deferredRun' = Append(deferredRun, <<Head(deferred), r>>)
          /\ pc' = IF r THEN "end"
                   ELSE IF Tail(deferred) # <<>> THEN "deferred" ELSE "scenein"
    /\ deferred' = Tail(deferred)
    /\ UNCHANGED <<scene, next_scene, components, registered_components, dirty,
                   event, inputQueue,
                   children, location, built, pparent, pchildren, closecb,
                   closedelay, animated, attachedNow, detachCalls, destroyed, constructed, requests, firstRequest, exitCalled,
                   staleTick, staleRender, offered, sceneAsked, closeRunaway, lastRequest>>
    /\ detachLog' = <<>>
    /\ selected' = None
    /\ callbackLog' = <<>>
    /\ received' = None
    /\ raised' = FALSE
    /\ regCall' = NoCall
    /\ renderLog' = <<>>
    /\ sawDirty' = FALSE
    /\ UNCHANGED ticksSince

\* lines 325-327: the scene's handle_input, when nothing handled the event
SceneInput ==
    /\ pc = "scenein"
    /\ UNCHANGED <<mouseVars, listVars, widgetVars, ticksDone>>
    /\ ~handled
    /\ scene # None
    /\ \E op \in InputOps(World) :
          /\ Commit(ApplyOp(World, op))
          /\ handled' = (op.k # "nothing")
    /\ sceneAsked' = TRUE
    /\ pc' = "end"
    /\ UNCHANGED <<scene, components, event, inputQueue,
                   deferred, destroyed, staleTick, staleRender, offered,
                   deferredRun>>

\* lines 329-332 and 141: the idle callback, when there was no event and
\* nothing is to be repainted (it works on the application's own state);
\* then the cycle starts over, or the loop ends when there is neither a
\* scene nor a pending one
CycleEnd ==
    /\ pc = "end"
    /\ UNCHANGED <<mouseVars, listVars, widgetVars, ticksDone>>
    /\ pc' = IF next_scene # None THEN "top"
             ELSE IF scene = None THEN "done" ELSE "tick"
    /\ event' = None
    /\ handled' = FALSE
    /\ deferred' = <<>>
    /\ inputQueue' = <<>>
    /\ offered' = <<>>
    /\ deferredRun' = <<>>
    /\ sceneAsked' = FALSE
    /\ UNCHANGED <<scene, next_scene, components, registered_components, dirty,
                   children, location, built, pparent, pchildren, closecb,
                   closedelay, animated, attachedNow, detachCalls, destroyed, constructed, requests, firstRequest, exitCalled,
                   staleTick, staleRender, closeRunaway, lastRequest>>
    /\ detachLog' = <<>>
    /\ selected' = None
    /\ callbackLog' = <<>>
    /\ received' = None
    /\ raised' = FALSE
    /\ regCall' = NoCall
    /\ renderLog' = <<>>
    /\ sawDirty' = FALSE
    /\ UNCHANGED ticksSince

Next ==
    \/ TearDown \/ CreateAttach
    \/ TickSkip \/ TickScene \/ TickOverlays
    \/ Render
    \/ Poll \/ Offer \/ RunDeferred \/ SceneInput
    \/ CycleEnd

Spec == Init /\ [][Next]_vars

\* ------------------------------------------------------------------------
\* The registry under calls of any arguments (SpecRegistry): the
\* application's code, run from Scene.tick or from the constructor of the
\* scene, calls register_component and unregister_component; an exception
\* leaves run().
\* ------------------------------------------------------------------------
RegisterCall ==
    /\ pc \in {"top", "tick"}
    /\ Len(registered_components) < MaxReg
    /\ \E c \in {"dlg"} \cup Panes, loc \in BOOLEAN, parent \in {None, "base"} :
          LET w == RegisterComponent(World, c, loc, parent)
          IN /\ Commit([w EXCEPT !.call = [c |-> c, loc |-> loc, parent |-> parent]])
             /\ pc' = IF w.raised THEN "raised" ELSE pc
    /\ UNCHANGED <<scene, components, ticksDone, event, inputQueue, handled,
                   deferred, destroyed, staleTick, staleRender, offered,
                   deferredRun, sceneAsked>>
    /\ UNCHANGED <<mouseVars, listVars, widgetVars>>

UnregisterCall ==
    /\ pc = "tick"
    /\ \E c \in Range(RegComps(registered_components)) :
          Commit(UnregisterComponent(World, c))
    /\ UNCHANGED <<scene, components, pc, ticksDone, event, inputQueue, handled,
                   deferred, destroyed, staleTick, staleRender, offered,
                   deferredRun, sceneAsked>>
    /\ UNCHANGED <<mouseVars, listVars, widgetVars>>

NextRegistry ==
    \/ TearDown \/ CreateAttach \/ TickSkip \/ Render \/ Poll \/ CycleEnd
    \/ RegisterCall \/ UnregisterCall

SpecRegistry == Init /\ [][NextRegistry]_vars

\* ------------------------------------------------------------------------
\* The scheduler under an application whose Scene.tick calls exit() and
\* change_scene (SpecExit)
\* ------------------------------------------------------------------------
\* self.scene.tick() calls main_loop.exit()
ExitCall ==
    /\ pc = "tick"
    /\ scene # None
    /\ Commit(Exit(World))
    /\ UNCHANGED <<scene, components, pc, ticksDone, event, inputQueue, handled,
                   deferred, destroyed, staleTick, staleRender, offered,
                   deferredRun, sceneAsked>>
    /\ UNCHANGED <<mouseVars, listVars, widgetVars>>

\* self.scene.tick() calls main_loop.change_scene(s)
ChangeCall ==
    /\ pc = "tick"
    /\ scene # None
    /\ \E s \in SceneTypes : Commit(ChangeScene(World, s))
    /\ UNCHANGED <<scene, components, pc, ticksDone, event, inputQueue, handled,
                   deferred, destroyed, staleTick, staleRender, offered,
                   deferredRun, sceneAsked>>
    /\ UNCHANGED <<mouseVars, listVars, widgetVars>>

NextExit ==
    \/ TearDown \/ CreateAttach \/ TickSkip \/ Render \/ Poll \/ CycleEnd
    \/ RegisterCall \/ ExitCall \/ ChangeCall

SpecExit == Init /\ [][NextExit]_vars

\* ------------------------------------------------------------------------
\* MainLoop.run, decoding of KEY_MOUSE (lines 239-274).  The clock counts
\* half seconds; every decoding reads it once.
\* ------------------------------------------------------------------------
\* the columns and the rows the mouse reports
Coords == {0, 1}

\* time.time() moves on between two inputs (a new cycle starts with
\* event = None)
TimePasses ==
    /\ now < MaxTime
    /\ now' = now + 1
    /\ mouseEvent' = NoEvent
    /\ lastInput' = NoEvent
    /\ UNCHANGED <<mousestate, loopVars, listVars, widgetVars>>

\* mutant: the window is closed at its end, "<= 1.0"
ReleaseEvent_Inclusive(b, x, y) ==
    IF /\ mousestate[b].x = x
       /\ mousestate[b].y = y
       /\ now - mousestate[b].t <= ClickTimeout
    THEN [kind |-> "mouse", x |-> x, y |-> y, button |-> b]
    ELSE NoEvent

\* the event a release of button b at (x, y) decodes to
ReleaseEvent(b, x, y) ==
    IF /\ mousestate[b].x = x
       /\ mousestate[b].y = y
       /\ now - mousestate[b].t < ClickTimeout
    THEN [kind |-> "mouse", x |-> x, y |-> y, button |-> b]
    ELSE NoEvent

\* mask == BUTTON1_PRESSED / BUTTON2_PRESSED / BUTTON3_PRESSED
Press(b, x, y) ==
    /\ mousestate' = [mousestate EXCEPT ![b] = [x |-> x, y |-> y, t |-> now]]
    /\ mouseEvent' = NoEvent
    /\ lastInput' = [kind |-> "press", button |-> b, x |-> x, y |-> y]
    /\ UNCHANGED now

MousePress ==
    \E b \in Buttons, x \in Coords, y \in Coords :
        Press(b, x, y) /\ UNCHANGED <<loopVars, listVars, widgetVars>>

\* mask == BUTTON1_RELEASED / BUTTON2_RELEASED / BUTTON3_RELEASED
Release(b, x, y) ==
    /\ mouseEvent' = ReleaseEvent(b, x, y)
    /\ lastInput' = [kind |-> "release", button |-> b, x |-> x, y |-> y]
    /\ UNCHANGED <<mousestate, now>>

MouseRelease ==
    \E b \in Buttons, x \in Coords, y \in Coords :
        Release(b, x, y) /\ UNCHANGED <<loopVars, listVars, widgetVars>>

\* mask == BUTTON4_PRESSED (up), REPORT_MOUSE_POSITION or 0x200000 (down)
MouseScroll ==
    \E d \in {"UP", "DOWN"}, x \in Coords, y \in Coords :
        /\ mouseEvent' = [kind |-> "scroll", x |-> x, y |-> y, direction |-> d]
        /\ lastInput' = [kind |-> "wheel", direction |-> d, x |-> x, y |-> y]
        /\ UNCHANGED <<mousestate, now, loopVars, listVars, widgetVars>>

\* any other mask, or getmouse() raising an error
MouseOther ==
    /\ mouseEvent' = NoEvent
    /\ lastInput' = [kind |-> "other"]
    /\ UNCHANGED <<mousestate, now, loopVars, listVars, widgetVars>>

NextMouse == TimePasses \/ MousePress \/ MouseRelease \/ MouseScroll \/ MouseOther

SpecMouse == Init /\ [][NextMouse]_vars

\* ------------------------------------------------------------------------
\* The decoder under presses and releases, with the clicks every recorded
\* press has given counted up to MaxClicks (SpecClick).
\* ------------------------------------------------------------------------
clickRest == <<loopVars, listVars, renderVars, placeVars, hitVars, labelVars,
               guardVars, clipVars, wrapVars, layVars, fmtVars, colorVars,
               faultVars, cpVars, dgVars, tiVars, lkVars>>

\* the buttons that are pressed and released, on one row of the screen
ClickButtons == {"LEFT", "MIDDLE"}
ClickRows == {0}

\* a press is recorded for the button: its count starts again
ClickPress ==
    \E b \in ClickButtons, x \in Coords, y \in ClickRows :
        /\ Press(b, x, y)
        /\ clicks' = [clicks EXCEPT ![b] = 0]
        /\ UNCHANGED clickRest

\* a release that gives a click is counted for the button
ClickRelease ==
    \E b \in ClickButtons, x \in Coords, y \in ClickRows :
        /\ Release(b, x, y)
        /\ clicks' = IF ReleaseEvent(b, x, y) = NoEvent THEN clicks
                      ELSE [clicks EXCEPT ![b] =
                               IF @ < MaxClicks THEN @ + 1 ELSE @]
        /\ UNCHANGED clickRest

NextClick == TimePasses \/ ClickPress \/ ClickRelease

SpecClick == Init /\ [][NextClick]_vars

\* ------------------------------------------------------------------------
\* ListComponent.handle_input (component.py lines 854-879), over the values
\* its children return: "true", "false", or a DeferredInput whose callback
\* will return True ("defer_t") or False ("defer_f")
\* ------------------------------------------------------------------------
ChildResults == {"true", "false", "defer_t", "defer_f"}

RECURSIVE SeqsUpTo(_, _)
SeqsUpTo(S, n) ==
    IF n = 0 THEN {<<>>}
    ELSE LET shorter == SeqsUpTo(S, n - 1)
         IN shorter \cup {Append(q, x) : q \in {r \in shorter : Len(r) = n - 1}, x \in S}

InitList ==
    /\ lcKids \in SeqsUpTo(ChildResults, MaxKids)
    /\ lcIdx = 0
    /\ lcDeferred = <<>>
    /\ lcCalled = <<>>
    /\ lcResult = None
    /\ lcCbIdx = 0
    /\ lcCbCalled = <<>>
    /\ lcCbResult = None

\* mutant: the first boolean, True or False, ends the dispatch
ListOffer_FirstBoolean ==
    /\ lcResult = None
    /\ lcIdx < Len(lcKids)
    /\ lcIdx' = lcIdx + 1
    /\ lcCalled' = Append(lcCalled, lcIdx + 1)
    /\ LET r == lcKids[lcIdx + 1]
       IN /\ lcResult' = IF r \in {"true", "false"} THEN r ELSE lcResult
          /\ lcDeferred' = IF r \in {"defer_t", "defer_f"}
                           THEN Append(lcDeferred, lcIdx + 1)
                           ELSE lcDeferred
    /\ UNCHANGED <<lcKids, lcCbIdx, lcCbCalled, lcCbResult, loopVars, mouseVars, widgetVars>>

\* one turn of "for component in self.__components"
ListOffer ==
    /\ lcResult = None
    /\ lcIdx < Len(lcKids)
    /\ lcIdx' = lcIdx + 1
    /\ lcCalled' = Append(lcCalled, lcIdx + 1)
    /\ LET r == lcKids[lcIdx + 1]
       IN /\ lcResult' = IF r = "true" THEN "true" ELSE lcResult
          /\ lcDeferred' = IF r \in {"defer_t", "defer_f"}
                           THEN Append(lcDeferred, lcIdx + 1)
                           ELSE lcDeferred
    /\ UNCHANGED <<lcKids, lcCbIdx, lcCbCalled, lcCbResult, loopVars, mouseVars, widgetVars>>

\* after the loop: False when nobody deferred, else the closure _defer
ListReturn ==
    /\ lcResult = None
    /\ lcIdx = Len(lcKids)
    /\ lcResult' = IF lcDeferred = <<>> THEN "false" ELSE "defer"
    /\ UNCHANGED <<lcKids, lcIdx, lcDeferred, lcCalled, lcCbIdx, lcCbCalled,
                   lcCbResult, loopVars, mouseVars, widgetVars>>

\* one turn of "for callback in deferred" of _defer, once the caller runs it
ListDeferCall ==
    /\ lcResult = "defer"
    /\ lcCbResult = None
    /\ lcCbIdx < Len(lcDeferred)
    /\ lcCbIdx' = lcCbIdx + 1
    /\ lcCbCalled' = Append(lcCbCalled, lcDeferred[lcCbIdx + 1])
    /\ lcCbResult' = IF lcKids[lcDeferred[lcCbIdx + 1]] = "defer_t"
                     THEN "true" ELSE lcCbResult
    /\ UNCHANGED <<lcKids, lcIdx, lcDeferred, lcCalled, lcResult, loopVars,
                   mouseVars, widgetVars>>

\* _defer falls out of its loop
ListDeferReturn ==
    /\ lcResult = "defer"
    /\ lcCbResult = None
    /\ lcCbIdx = Len(lcDeferred)
    /\ lcCbResult' = "false"
    /\ UNCHANGED <<lcKids, lcIdx, lcDeferred, lcCalled, lcResult, lcCbIdx,
                   lcCbCalled, loopVars, mouseVars, widgetVars>>

NextList == ListOffer \/ ListReturn \/ ListDeferCall \/ ListDeferReturn

ListInit == InitLoop /\ IdleMouse /\ InitList /\ InitWidgets

SpecList == ListInit /\ [][NextList]_vars

\* ------------------------------------------------------------------------
\* The input dispatch of MainLoop.run alone, started in a running scene
\* whose registry holds application panes
\* ------------------------------------------------------------------------
PaneLists == {<<>>, <<"pane">>, <<"pane2">>, <<"pane", "pane2">>, <<"pane2", "pane">>}

InitDispatch ==
    /\ scene = "TestScene"
    /\ next_scene = None
    /\ components = <<"base">>
    /\ \E ps \in PaneLists :
          /\ registered_components =
                [i \in 1..Len(ps) |-> [c |-> ps[i], loc |-> FALSE, parent |-> None]]
          /\ location = [c \in Comps |-> c \in {"base", "btn"} \cup Range(ps)]
          /\ attachedNow = [c \in Comps |-> c \in {"base", "btn"} \cup Range(ps)]
    /\ dirty = FALSE
    /\ pc = "input"
    /\ ticksDone = 0
    /\ event = None
    /\ inputQueue = <<>>
    /\ handled = FALSE
    /\ deferred = <<>>
    /\ children = FreshChildren
    /\ built = {}
    /\ pparent = [m \in Menus |-> None]
    /\ pchildren = [m \in Menus |-> <<>>]
    /\ closecb = AllFalse(Menus)
    /\ closedelay = [m \in Menus |-> 0]
    /\ animated = AllFalse(Menus)
    /\ detachCalls = [c \in Comps |-> 0]
    /\ detachLog = <<>>
    /\ destroyed = FALSE
    /\ constructed = 0
    /\ requests = 0
    /\ firstRequest = None
    /\ lastRequest = None
    /\ exitCalled = FALSE
    /\ staleTick = {}
    /\ staleRender = {}
    /\ offered = <<>>
    /\ deferredRun = <<>>
    /\ sceneAsked = FALSE
    /\ closeRunaway = FALSE
    /\ selected = None
    /\ callbackLog = <<>>
    /\ ticksSince = [m \in Menus |-> 0]
    /\ received = None
    /\ raised = FALSE
    /\ regCall = NoCall
    /\ renderLog = <<>>
    /\ sawDirty = FALSE

NextDispatch == Poll \/ Offer \/ RunDeferred \/ SceneInput \/ CycleEnd

DispatchInit == InitDispatch /\ IdleMouse /\ IdleList /\ InitWidgets

SpecDispatch == DispatchInit /\ [][NextDispatch]_vars

\* ------------------------------------------------------------------------
\* Rendering and dirtiness of a widget tree: BorderComponent(ListComponent(
\* [la, lb], direction=TOP_TO_BOTTOM, size=1)), the tree of a popover menu's
\* body, rendered into a window of any size up to MaxSide x MaxSide
\* ------------------------------------------------------------------------
Sides == 1..MaxSide
ListSize == 1
LabelSet == {WLabels[i] : i \in 1..Len(WLabels)}

\* BorderComponent.render: the inner component is rendered when the border
\* is visible and the window is more than 2 wide and high
BorderRendersInner(h, w) == wVisible["border"] /\ w > 2 /\ h > 2

\* ListComponent.render in a window h high: the children _render is called
\* of; the loop breaks at the first child whose offset is not in the window
ListRenders(h) ==
    IF ~wVisible["list"] THEN {}
    ELSE {WLabels[i] : i \in {j \in 1..Len(WLabels) : (j - 1) * ListSize < h}}

\* the components whose render() runs when the border is rendered into a
\* window h high and w wide
RenderedBy(h, w) ==
    {"border"}
    \cup (IF BorderRendersInner(h, w)
          THEN {"list"} \cup ListRenders(h - 2) ELSE {})

\* the dirty properties
LabelDirty(l) == ~wRendered[l]
ListDirty == \E l \in LabelSet : LabelDirty(l)
BorderDirty == ~wDrawn \/ ListDirty
WDirty(c) ==
    CASE c = "border" -> BorderDirty
      [] c = "list" -> ListDirty
      [] OTHER -> LabelDirty(c)

\* border._render(context, context.bounds) for a window of h lines and w
\* columns: BorderComponent.render sets __drawn, LabelComponent.render
\* sets __rendered
RenderPass ==
    /\ \E h \in Sides, w \in Sides :
          LET ran == RenderedBy(h, w)
          IN /\ wRan' = ran
             /\ wRendered' = [l \in LabelSet |-> wRendered[l] \/ l \in ran]
    /\ wDrawn' = TRUE
    /\ wSet' = FALSE
    /\ UNCHANGED <<wText, wVisible, placeVars, hitVars, labelVars, loopVars, mouseVars, listVars, extVars>>

\* LabelComponent.text setter
SetText ==
    /\ \E l \in LabelSet, t \in Texts :
          /\ wRendered' = [wRendered EXCEPT ![l] = IF ~@ THEN FALSE
                                                  ELSE wText[l] = t]
          /\ wText' = [wText EXCEPT ![l] = t]
          /\ wSet' = (wText[l] # t)
    /\ wRan' = {}
    /\ UNCHANGED <<wVisible, wDrawn, placeVars, hitVars, labelVars, loopVars, mouseVars, listVars, extVars>>

\* the visible setters of LabelComponent, ListComponent, BorderComponent
SetVisible ==
    /\ \E c \in WComps, v \in BOOLEAN :
          /\ wVisible' = [wVisible EXCEPT ![c] = v]
          /\ wRendered' = IF c \in LabelSet
                          THEN [wRendered EXCEPT ![c] = IF ~@ THEN FALSE
                                                       ELSE wVisible[c] = v]
                          ELSE wRendered
          /\ wDrawn' = IF c = "border"
                       THEN (IF ~wDrawn THEN FALSE ELSE wVisible[c] = v)
                       ELSE wDrawn
          /\ wSet' = (wVisible[c] # v)
    /\ wRan' = {}
    /\ UNCHANGED <<wText, placeVars, hitVars, labelVars, loopVars, mouseVars, listVars, extVars>>

NextRender == RenderPass \/ SetText \/ SetVisible

\* ------------------------------------------------------------------------
\* MainLoop.run, render phase with its geometry (loop.py 199-223)
\* ------------------------------------------------------------------------
Min(a, b) == IF a < b THEN a ELSE b
Max(a, b) == IF a > b THEN a ELSE b

\* BoundingRectangle.offset
Offset(rect, y, x) ==
    Rect(rect.top + y, rect.bottom + y, rect.left + x, rect.right + x)

\* BoundingRectangle.clip
Clip(rect, bounds) ==
    Rect(Min(Max(rect.top, bounds.top), bounds.bottom),
         Max(Min(rect.bottom, bounds.bottom), bounds.top),
         Min(Max(rect.left, bounds.left), bounds.right),
         Max(Min(rect.right, bounds.right), bounds.left))

\* the locations an application stores with an overlay, and the places the
\* layout of the base component can give the button
Offs == 0..MaxOff
StoredRects == {Rect(t, t + MaxExt, l, l + MaxExt) : t \in Offs, l \in Offs}
BtnRects == {Rect(t, t + 1, l, l + 1) : t \in {0, MaxOff}, l \in {0, MaxOff}}

\* register_component(component, location, parent), between two passes
PlRegister ==
    /\ plPc = 0
    /\ Len(plReg) < Len(PlOverlays)
    /\ LET c == PlOverlays[Len(plReg) + 1]
       IN \E parent \in {None, "btn"} \cup Range(RegComps(plReg)) :
          \E loc \in StoredRects \cup (IF parent = None THEN {NoRect} ELSE {}) :
             /\ plReg' = Append(plReg, [c |-> c, loc |-> loc, parent |-> parent])
             /\ plLoc' = [plLoc EXCEPT ![c] = NoRect]
    /\ plLog' = <<>>
    /\ UNCHANGED <<plScreen, plPc, renderVars, hitVars, labelVars, loopVars, mouseVars, listVars, extVars>>

\* the terminal is resized between two passes
PlResize ==
    /\ plPc = 0
    /\ plScreen' \in {Rect(0, h, 0, w) : h \in ScreenSides, w \in ScreenSides}
    /\ plScreen' # plScreen
    /\ plLog' = <<>>
    /\ UNCHANGED <<plReg, plLoc, plPc, renderVars, hitVars, labelVars, loopVars, mouseVars, listVars, extVars>>

\* "for component in self.components: component._render(self.context,
\* self.context.bounds)": the base component caches the screen, and its
\* layout gives the button a place
PlRenderBases ==
    /\ plPc = 0
    /\ \E at \in BtnRects :
          plLoc' = [plLoc EXCEPT !["b"] = plScreen, !["btn"] = at]
    /\ plLog' = [i \in 1..Len(PlBases) |-> [c |-> PlBases[i], at |-> plScreen]]
    /\ plPc' = 1
    /\ UNCHANGED <<plScreen, plReg, renderVars, hitVars, labelVars, loopVars, mouseVars, listVars, extVars>>

\* mutant: the parent's place is ignored
ParentLocation_Screen(e) == plScreen

\* parentlocation of a registry entry
ParentLocation(e) ==
    IF e.parent = None THEN plScreen
    ELSE IF plLoc[e.parent] # NoRect THEN plLoc[e.parent] ELSE plScreen

\* the bounds the overlay of a registry entry is rendered with
Placement(e) ==
    LET parentlocation == ParentLocation(e)
        loc == IF e.loc = NoRect THEN plScreen ELSE e.loc
    IN Clip(Offset(loc, parentlocation.top, parentlocation.left), plScreen)

\* the next turn of "for (component, location, parent) in
\* self.registered_components"; Component._render caches the location
PlRenderOverlay ==
    /\ plPc > 0
    /\ plPc <= Len(plReg)
    /\ LET e == plReg[plPc]
           at == Placement(e)
       IN /\ plLoc' = [plLoc EXCEPT ![e.c] = at]
          /\ plLog' = Append(plLog, [c |-> e.c, at |-> at])
    /\ plPc' = plPc + 1
    /\ UNCHANGED <<plScreen, plReg, renderVars, hitVars, labelVars, loopVars, mouseVars, listVars, extVars>>

\* the loop over the registry is done: refresh
PlRefresh ==
    /\ plPc > 0
    /\ plPc > Len(plReg)
    /\ plPc' = 0
    /\ UNCHANGED <<plScreen, plReg, plLoc, plLog, renderVars, hitVars, labelVars, loopVars, mouseVars, listVars, extVars>>

NextPlace == PlRegister \/ PlResize \/ PlRenderBases \/ PlRenderOverlay \/ PlRefresh

SpecPlace == Init /\ [][NextPlace]_vars

\* ------------------------------------------------------------------------
\* Component._handle_input of a component with the behaviours of
\* HotkeyableComponent and ClickableComponent (a ButtonComponent, a
\* MenuEntryComponent)
\* ------------------------------------------------------------------------
HitCoords == 0..MaxXY
\* the locations a render can cache: any lines, one column
HitRects ==
    {Rect(t, b, l, l + 1) : t \in HitCoords, b \in HitCoords, l \in HitCoords}
\* the characters of a keyboard event, and what str.lower makes of them
Chars == {"b", "B", "x", "!"}
Lower(ch) == IF ch = "B" THEN "b" ELSE ch
\* str.isalnum
IsAlnum(ch) == ch \in {"a", "b", "B", "x"}

HitEvents ==
    {[kind |-> "mouse", x |-> x, y |-> y, button |-> b] :
        x \in HitCoords, y \in HitCoords, b \in Buttons}
    \cup {[kind |-> "key", character |-> ch] : ch \in Chars}
    \cup {[kind |-> "scroll", x |-> 0, y |-> 0, direction |-> d] : d \in {"UP", "DOWN"}}
    \cup {[kind |-> "defocus", button |-> b] : b \in Buttons}

\* mutant: the bottom line and the right column count as inside
Contains_Inclusive(rect, y, x) ==
    y >= rect.top /\ y <= rect.bottom /\ x >= rect.left /\ x <= rect.right

\* BoundingRectangle.contains
Contains(rect, y, x) ==
    y >= rect.top /\ y < rect.bottom /\ x >= rect.left /\ x < rect.right

\* Component._handle_input: the event handle_input is called with, NoEvent
\* when it is not called
Forwarded(loc, ev) ==
    IF ev.kind = "mouse"
    THEN IF loc # NoRect
         THEN IF Contains(loc, ev.y, ev.x) THEN ev
              ELSE [kind |-> "defocus", button |-> ev.button]
         ELSE NoEvent
    ELSE ev

\* Component.handle_input
ComponentHandle(ev) == [calls |-> <<>>, result |-> "false"]

\* mutant: a click counts as handled whatever the callback answers
ClickableHandle_Swallow(ev, answer) ==
    IF ev.kind = "mouse"
    THEN IF hCallback
         THEN [calls |-> <<[by |-> "Clickable", button |-> ev.button]>>,
               result |-> "true"]
         ELSE [calls |-> <<>>, result |-> "true"]
    ELSE ComponentHandle(ev)

\* ClickableComponent.handle_input; answer is what the callback returns
ClickableHandle(ev, answer) ==
    IF ev.kind = "mouse"
    THEN IF hCallback
         THEN [calls |-> <<[by |-> "Clickable", button |-> ev.button]>>,
               result |-> IF answer THEN "true" ELSE ComponentHandle(ev).result]
         ELSE [calls |-> <<>>, result |-> "true"]
    ELSE ComponentHandle(ev)

\* HotkeyableComponent.handle_input, whose super() is ClickableComponent
HotkeyableHandle(ev, answer) ==
    IF hHotkey # None /\ ev.kind = "key"
    THEN IF ev.character # hHotkey THEN ClickableHandle(ev, answer)
         ELSE IF hCallback
              THEN LET next == ClickableHandle(ev, answer)
                       call == <<[by |-> "Hotkeyable", button |-> "KEY"]>>
                   IN IF answer THEN [calls |-> call, result |-> "true"]
                      ELSE [calls |-> call \o next.calls, result |-> next.result]
              ELSE [calls |-> <<>>, result |-> "true"]
    ELSE ClickableHandle(ev, answer)

\* Component._render caches a location
HitRender ==
    /\ hLoc' \in {r \in HitRects : r.top < r.bottom /\ r.right <= MaxXY}
    /\ hEvent' = NoEvent /\ hSeen' = NoEvent /\ hCalls' = <<>>
    /\ hAnswer' = FALSE /\ hResult' = None
    /\ UNCHANGED <<hHotkey, hCallback, renderVars, placeVars, labelVars, loopVars, mouseVars, listVars, extVars>>

\* HotkeyableComponent.set_hotkey
SetHotkey ==
    /\ \E key \in Chars : hHotkey' = IF IsAlnum(key) THEN Lower(key) ELSE hHotkey
    /\ hEvent' = NoEvent /\ hSeen' = NoEvent /\ hCalls' = <<>>
    /\ hAnswer' = FALSE /\ hResult' = None
    /\ UNCHANGED <<hLoc, hCallback, renderVars, placeVars, labelVars, loopVars, mouseVars, listVars, extVars>>

\* ClickableComponent.on_click
OnClick ==
    /\ hCallback' = TRUE
    /\ hEvent' = NoEvent /\ hSeen' = NoEvent /\ hCalls' = <<>>
    /\ hAnswer' = FALSE /\ hResult' = None
    /\ UNCHANGED <<hLoc, hHotkey, renderVars, placeVars, labelVars, loopVars, mouseVars, listVars, extVars>>

\* component._handle_input(event)
HitOffer ==
    /\ \E ev \in HitEvents, answer \in BOOLEAN :
          LET seen == Forwarded(hLoc, ev)
              out == IF seen = NoEvent THEN ComponentHandle(ev)
                     ELSE HotkeyableHandle(seen, answer)
          IN /\ hEvent' = ev
             /\ hSeen' = seen
             /\ hCalls' = out.calls
             /\ hAnswer' = (answer /\ out.calls # <<>>)
             /\ hResult' = out.result
    /\ UNCHANGED <<hLoc, hHotkey, hCallback, renderVars, placeVars, labelVars, loopVars, mouseVars, listVars, extVars>>

NextHit == HitRender \/ SetHotkey \/ OnClick \/ HitOffer

SpecHit == Init /\ [][NextHit]_vars

\* ------------------------------------------------------------------------
\* A LabelComponent between two threads: the main loop, which runs
\* Component._render, and a thread of the application, which calls the
\* text and visible setters.  Each step is one statement.
\* ------------------------------------------------------------------------
\* mutant: the setter does not take the lock
CanAcquire_Unlocked(thread) == thread = "setter" \/ lLock = None

\* "with self.lock:" can be entered
CanAcquire(thread) == lLock = None

\* what a render of a label with these values puts on the screen
Shown(text, visible) == IF visible THEN text ELSE "nothing"

\* Component._render: "with self.lock:"
RenderAcquire ==
    /\ lPcR = "idle"
    /\ CanAcquire("render")
    /\ lLock' = "render"
    /\ lPcR' = "visible"
    /\ UNCHANGED <<lText, lVisible, lRendered, lPcS, lArg, lRead, lDrawn>>
    /\ UNCHANGED <<renderVars, placeVars, hitVars, loopVars, mouseVars, listVars, extVars>>

\* LabelComponent.render: "if not self.__visible: self.__rendered = True;
\* return"
RenderVisible ==
    /\ lPcR = "visible"
    /\ IF lVisible
       THEN /\ lPcR' = "draw"
            /\ UNCHANGED <<lRendered, lRead>>
       ELSE /\ lRendered' = TRUE
            /\ lRead' = Shown(lText, FALSE)
            /\ lPcR' = "release"
    /\ UNCHANGED <<lText, lVisible, lLock, lPcS, lArg, lDrawn>>
    /\ UNCHANGED <<renderVars, placeVars, hitVars, loopVars, mouseVars, listVars, extVars>>

\* LabelComponent.render: context.draw_string(0, 0, self.__text, ...)
RenderDraw ==
    /\ lPcR = "draw"
    /\ lRead' = Shown(lText, TRUE)
    /\ lPcR' = "mark"
    /\ UNCHANGED <<lText, lVisible, lRendered, lLock, lPcS, lArg, lDrawn>>
    /\ UNCHANGED <<renderVars, placeVars, hitVars, loopVars, mouseVars, listVars, extVars>>

\* LabelComponent.render: self.__rendered = True
RenderMark ==
    /\ lPcR = "mark"
    /\ lRendered' = TRUE
    /\ lPcR' = "release"
    /\ UNCHANGED <<lText, lVisible, lLock, lPcS, lArg, lRead, lDrawn>>
    /\ UNCHANGED <<renderVars, placeVars, hitVars, loopVars, mouseVars, listVars, extVars>>

\* the end of "with self.lock:" in _render: the render is complete
RenderRelease ==
    /\ lPcR = "release"
    /\ lLock' = IF lLock = "render" THEN None ELSE lLock
    /\ lDrawn' = lRead
    /\ lPcR' = "idle"
    /\ UNCHANGED <<lText, lVisible, lRendered, lPcS, lArg, lRead>>
    /\ UNCHANGED <<renderVars, placeVars, hitVars, loopVars, mouseVars, listVars, extVars>>

\* label.text = t or label.visible = v is called
SetterCall ==
    /\ lPcS = "idle"
    /\ lArg' \in {[prop |-> "text", val |-> t] : t \in Texts}
                \cup {[prop |-> "visible", val |-> v] : v \in BOOLEAN}
    /\ lPcS' = "acquire"
    /\ UNCHANGED <<lText, lVisible, lRendered, lLock, lPcR, lRead, lDrawn>>
    /\ UNCHANGED <<renderVars, placeVars, hitVars, loopVars, mouseVars, listVars, extVars>>

\* the setter's "with self.lock:"
SetterAcquire ==
    /\ lPcS = "acquire"
    /\ CanAcquire("setter")
    /\ lLock' = IF lLock = None THEN "setter" ELSE lLock
    /\ lPcS' = "mark"
    /\ UNCHANGED <<lText, lVisible, lRendered, lPcR, lArg, lRead, lDrawn>>
    /\ UNCHANGED <<renderVars, placeVars, hitVars, loopVars, mouseVars, listVars, extVars>>

\* "self.__rendered = False if not self.__rendered else (self.__text ==
\* text)", and the same for __visible
SetterMark ==
    /\ lPcS = "mark"
    /\ lRendered' = IF ~lRendered THEN FALSE
                    ELSE IF lArg.prop = "text" THEN lText = lArg.val
                    ELSE lVisible = lArg.val
    /\ lPcS' = "store"
    /\ UNCHANGED <<lText, lVisible, lLock, lPcR, lArg, lRead, lDrawn>>
    /\ UNCHANGED <<renderVars, placeVars, hitVars, loopVars, mouseVars, listVars, extVars>>

\* "self.__text = text" or "self.__visible = visible"
SetterStore ==
    /\ lPcS = "store"
    /\ IF lArg.prop = "text"
       THEN lText' = lArg.val /\ UNCHANGED lVisible
       ELSE lVisible' = lArg.val /\ UNCHANGED lText
    /\ lPcS' = "release"
    /\ UNCHANGED <<lRendered, lLock, lPcR, lArg, lRead, lDrawn>>
    /\ UNCHANGED <<renderVars, placeVars, hitVars, loopVars, mouseVars, listVars, extVars>>

\* the end of the setter's "with self.lock:"
SetterRelease ==
    /\ lPcS = "release"
    /\ lLock' = IF lLock = "setter" THEN None ELSE lLock
    /\ lArg' = NoArg
    /\ lPcS' = "idle"
    /\ UNCHANGED <<lText, lVisible, lRendered, lPcR, lRead, lDrawn>>
    /\ UNCHANGED <<renderVars, placeVars, hitVars, loopVars, mouseVars, listVars, extVars>>

NextLabel ==
    \/ RenderAcquire \/ RenderVisible \/ RenderDraw \/ RenderMark \/ RenderRelease
    \/ SetterCall \/ SetterAcquire \/ SetterMark \/ SetterStore \/ SetterRelease

SpecLabel == Init /\ [][NextLabel]_vars

SpecRender == Init /\ [][NextRender]_vars

\* ------------------------------------------------------------------------
\* SelectInputComponent: the property setters, which another thread may
\* call, against render and handle_input of the main loop (SpecGuard)
\* ------------------------------------------------------------------------
\* the other variable groups, which the steps below leave alone
guardRest == <<coreVars, clipVars, wrapVars, layVars, fmtVars, colorVars, faultVars, moreVars>>

\* "with self.lock:" of a setter can be entered
SiCanAcquire == siLock = None

\* what the setter of a property compares its argument with
SiField(prop) ==
    CASE prop = "focus" -> siFocused
      [] prop = "selected" -> siSelected
      [] OTHER -> siVisible

\* the arguments a setter accepts: selected raises for a value that is not
\* an option
SiArgs ==
    {[prop |-> p, val |-> v] : p \in {"focus", "visible"}, v \in BOOLEAN}
    \cup {[prop |-> "selected", val |-> SiOptions[i]] : i \in 1..Len(SiOptions)}

\* another thread calls a setter
SiSetterCall ==
    /\ siPcS = "idle"
    /\ \E a \in SiArgs : siArg' = a
    /\ siPcS' = "acquire"
    /\ UNCHANGED <<siSelected, siFocused, siVisible, siChanged, siLock, siPcH,
                   siRead, siTarget, siDrawn, guardRest>>

\* with self.lock:
SiSetterAcquire ==
    /\ siPcS = "acquire"
    /\ SiCanAcquire
    /\ siLock' = "setter"
    /\ siPcS' = "eval"
    /\ UNCHANGED <<siSelected, siFocused, siVisible, siChanged, siPcH, siArg,
                   siRead, siTarget, siDrawn, guardRest>>

\* the right-hand side "True if self.__changed else (self.__x != x)"
SiSetterEval ==
    /\ siPcS = "eval"
    /\ siRead' = (siChanged \/ SiField(siArg.prop) # siArg.val)
    /\ siPcS' = "mark"
    /\ UNCHANGED <<siSelected, siFocused, siVisible, siChanged, siLock, siPcH,
                   siArg, siTarget, siDrawn, guardRest>>

\* self.__changed = <the value computed>
SiSetterMark ==
    /\ siPcS = "mark"
    /\ siChanged' = siRead
    /\ siPcS' = "store"
    /\ UNCHANGED <<siSelected, siFocused, siVisible, siLock, siPcH, siArg,
                   siRead, siTarget, siDrawn, guardRest>>

\* self.__x = x
SiSetterStore ==
    /\ siPcS = "store"
    /\ siFocused' = IF siArg.prop = "focus" THEN siArg.val ELSE siFocused
    /\ siSelected' = IF siArg.prop = "selected" THEN siArg.val ELSE siSelected
    /\ siVisible' = IF siArg.prop = "visible" THEN siArg.val ELSE siVisible
    /\ siPcS' = "release"
    /\ UNCHANGED <<siChanged, siLock, siPcH, siArg, siRead, siTarget, siDrawn,
                   guardRest>>

\* the with block is left
SiSetterRelease ==
    /\ siPcS = "release"
    /\ siLock' = None
    /\ siPcS' = "idle"
    /\ siArg' = NoArg
    /\ UNCHANGED <<siSelected, siFocused, siVisible, siChanged, siPcH, siRead,
                   siTarget, siDrawn, guardRest>>

\* Component._render of the main loop: "with self.lock: self.render(...)".
\* Nothing else of the main loop runs meanwhile and a setter waits for the
\* lock, so that the call is one step.
SiRender ==
    /\ siPcH = "idle"
    /\ siLock = None
    /\ siChanged' = FALSE
    /\ siDrawn' = [selected |-> siSelected, focused |-> siFocused,
                   visible |-> siVisible]
    /\ UNCHANGED <<siSelected, siFocused, siVisible, siLock, siPcS, siPcH,
                   siArg, siRead, siTarget, guardRest>>

\* the index of an option in the options
SiIndex(o) == CHOOSE i \in 1..Len(SiOptions) : SiOptions[i] = o

\* select_previous / select_next: the option that is to be stored, None
\* when the selection is at the end of the options already
SelectPrevious == IF SiIndex(siSelected) > 1 THEN SiOptions[SiIndex(siSelected) - 1] ELSE None
SelectNext ==
    IF SiIndex(siSelected) < Len(SiOptions) THEN SiOptions[SiIndex(siSelected) + 1]
    ELSE None

\* the events handle_input is called with: a key, or a click inside the
\* location, which is one line of MaxXY + 1 columns; x is relx
SiEvents ==
    {[kind |-> "key", ch |-> k, x |-> 0] : k \in {"LEFT", "RIGHT", "x"}}
    \cup {[kind |-> "mouse", ch |-> b, x |-> x] : b \in {"LEFT", "RIGHT"}, x \in 0..MaxXY}

\* handle_input up to the assignment it decides on
SiSelection(ev) ==
    IF ev.kind = "key"
    THEN IF ~siFocused THEN None
         ELSE IF ev.ch = "LEFT" THEN SelectPrevious
         ELSE IF ev.ch = "RIGHT" THEN SelectNext
         ELSE None
    ELSE IF ev.ch # "LEFT" THEN None
         ELSE IF ev.x = 0 THEN SelectPrevious
         ELSE IF ev.x = MaxXY THEN SelectNext
         ELSE None

\* handle_input of the main loop, which takes no lock: it reads __selected
\* and finds the option to store, or returns
SiHandleCall ==
    /\ siPcH = "idle"
    /\ \E ev \in SiEvents :
          /\ siTarget' = SiSelection(ev)
          /\ siPcH' = IF SiSelection(ev) = None THEN "idle" ELSE "hstore"
    /\ UNCHANGED <<siSelected, siFocused, siVisible, siChanged, siLock, siPcS,
                   siArg, siRead, siDrawn, guardRest>>

\* self.__selected = options[i - 1] (or i + 1)
SiHandleStore ==
    /\ siPcH = "hstore"
    /\ siSelected' = siTarget
    /\ siPcH' = "hmark"
    /\ UNCHANGED <<siFocused, siVisible, siChanged, siLock, siPcS, siArg,
                   siRead, siTarget, siDrawn, guardRest>>

\* self.__changed = True
SiHandleMark ==
    /\ siPcH = "hmark"
    /\ siChanged' = TRUE
    /\ siPcH' = "idle"
    /\ siTarget' = None
    /\ UNCHANGED <<siSelected, siFocused, siVisible, siLock, siPcS, siArg,
                   siRead, siDrawn, guardRest>>

NextGuard ==
    \/ SiSetterCall \/ SiSetterAcquire \/ SiSetterEval \/ SiSetterMark
    \/ SiSetterStore \/ SiSetterRelease
    \/ SiRender \/ SiHandleCall \/ SiHandleStore \/ SiHandleMark

SpecGuard == Init /\ [][NextGuard]_vars

\* ------------------------------------------------------------------------
\* BoundingRectangle.clip over rectangles of any integer edges (SpecClip):
\* the constructor takes the four edges as they are given
\* ------------------------------------------------------------------------
clipRest == <<coreVars, guardVars, wrapVars, layVars, fmtVars, colorVars, faultVars, moreVars>>

AnyRects ==
    {Rect(t, b, l, r) : t \in 0..MaxXY, b \in 0..MaxXY, l \in 0..MaxXY, r \in 0..MaxXY}

\* rect.width, rect.height
Width(rect) == rect.right - rect.left
Height(rect) == rect.bottom - rect.top

DrawClip == clA \in AnyRects /\ clB \in AnyRects /\ clOut = NoRect

ClipInit ==
    /\ InitLoop /\ IdleMouse /\ IdleList /\ InitCoreWidgets
    /\ InitGuard /\ DrawClip /\ IdleWrap /\ IdleLay /\ IdleFmt /\ InitColor
    /\ InitFault /\ IdleMore

\* clA.clip(clB)
ClipCall ==
    /\ clOut = NoRect
    /\ clOut' = Clip(clA, clB)
    /\ UNCHANGED <<clA, clB, clipRest>>

NextClip == ClipCall

SpecClip == ClipInit /\ [][NextClip]_vars

\* ------------------------------------------------------------------------
\* RenderContext.__get_wrap_points and the chunks draw_string cuts the
\* string into (SpecWrap).  A string is a sequence of characters; i, j and
\* the offsets count from 0 as in the source, the sequences from 1.
\* ------------------------------------------------------------------------
wrapRest == <<coreVars, guardVars, clipVars, layVars, fmtVars, colorVars, faultVars, moreVars>>

WrapChars == {"a", " ", "-", "\n"}
Blank(ch) == ch \in {" ", "\t"}

\* string[a:b] of Python, for any integers a and b
PySlice(str, a, b) ==
    LET n == Len(str)
        lo == IF a < 0 THEN Max(n + a, 0) ELSE Min(a, n)
        hi == IF b < 0 THEN Max(n + b, 0) ELSE Min(b, n)
    IN SubSeq(str, lo + 1, hi)

\* mutant: the search looks one character further
MaxIter_TooFar(len, width) == Min(len, width + 2)

\* maxiter = min(len(string), (width + 1))
MaxIter(len, width) == Min(len, width + 1)

RECURSIVE Scan(_, _, _, _)
\* the loop "while i < maxiter" (lines 178-209): the possibilities found
\* from position i on, appended to poss
Scan(str, i, width, poss) ==
    IF i >= MaxIter(Len(str), width) THEN poss
    ELSE IF str[i + 1] = "\n" THEN Append(poss, i + 1)
    ELSE IF Blank(str[i + 1])
    THEN LET js == {j \in i..(Len(str) - 1) : ~Blank(str[j + 1])}
         IN IF js = {} THEN poss
            ELSE LET j == CHOOSE k \in js : \A m \in js : k <= m
                 IN Scan(str, j, width, Append(poss, j))
    ELSE IF str[i + 1] = "-" /\ i < width
    THEN Scan(str, i + 1, width,
              IF /\ i > 0 /\ i < Len(str) - 1
                 /\ IsAlnum(str[i]) /\ IsAlnum(str[i + 2])
              THEN Append(poss, i + 1) ELSE poss)
    ELSE Scan(str, i + 1, width, poss)

\* the base case (lines 163-168): a location after every newline
RECURSIVE NewlinePoints(_, _, _)
NewlinePoints(str, i, processed) ==
    IF i >= Len(str) THEN <<>>
    ELSE (IF str[i + 1] = "\n" THEN <<processed + i + 1>> ELSE <<>>)
         \o NewlinePoints(str, i + 1, processed)

\* mutant: every line is as wide as the first
LineWidth_AsFirst(locations, starty, bw) == bw - starty

\* width = bounds.width if locations else (bounds.width - starty)
LineWidth(locations, starty, bw) ==
    IF locations # <<>> THEN bw ELSE bw - starty

\* one turn of the loop "while string" (lines 159-221), entered with a
\* string that is not empty: whether the loop is left by break, and the
\* string, processed and locations after the turn
WrapIter(str, processed, locations, starty, bw) ==
    LET width == LineWidth(locations, starty, bw)
        poss == Scan(str, 0, width, <<>>)
        last == poss[Len(poss)]
    IN IF Len(str) <= width
       THEN [break |-> TRUE, str |-> str, processed |-> processed,
             locations |-> locations \o NewlinePoints(str, 0, processed)]
       ELSE IF poss # <<>>
       THEN [break |-> FALSE, str |-> PySlice(str, last, Len(str)),
             processed |-> processed + last,
             locations |-> Append(locations, processed + last)]
       ELSE [break |-> FALSE, str |-> PySlice(str, width, Len(str)),
             processed |-> processed + width,
             locations |-> Append(locations, processed + width)]

RECURSIVE WrapLoop(_, _, _, _, _)
\* the loop "while string" (lines 159-221)
WrapLoop(str, processed, locations, starty, bw) ==
    IF str = <<>> THEN locations
    ELSE LET it == WrapIter(str, processed, locations, starty, bw)
         IN IF it.break THEN it.locations
            ELSE WrapLoop(it.str, it.processed, it.locations, starty, bw)

\* __get_wrap_points(string, starty, startx, bounds); startx is not read
GetWrapPoints(str, starty, startx, bw) == WrapLoop(str, 0, <<>>, starty, bw)

\* draw_string, lines 252-260: the wrap points with the hanging one, and
\* the chunks string[last_pos:wrap_point]
WithHangingPoint(str, points) ==
    IF points = <<>> \/ points[Len(points)] # Len(str)
    THEN Append(points, Len(str)) ELSE points

Chunks(str, points) ==
    LET wps == WithHangingPoint(str, points)
    IN [k \in 1..Len(wps) |-> PySlice(str, IF k = 1 THEN 0 ELSE wps[k - 1], wps[k])]

DrawWrap ==
    /\ wpString \in UNION {[1..n -> WrapChars] : n \in 0..MaxLen}
    /\ wpStartY \in 0..MaxStart
    /\ wpStartX \in {0, MaxStart}
    /\ wpWidth \in 1..MaxW
    /\ wpDone = FALSE
    /\ wpPoints = <<>>
    /\ wpRest = wpString
    /\ wpProcessed = 0

WrapInit ==
    /\ InitLoop /\ IdleMouse /\ IdleList /\ InitCoreWidgets
    /\ InitGuard /\ IdleClip /\ DrawWrap /\ IdleLay /\ IdleFmt /\ InitColor
    /\ InitFault /\ IdleMore

\* wrap_points = RenderContext.__get_wrap_points(string, y, x, self.bounds)
WrapCall ==
    /\ ~wpDone
    /\ wpDone' = TRUE
    /\ wpPoints' = GetWrapPoints(wpString, wpStartY, wpStartX, wpWidth)
    /\ UNCHANGED <<wpString, wpStartY, wpStartX, wpWidth, wpRest, wpProcessed,
                   wrapRest>>

NextWrap == WrapCall

SpecWrap == WrapInit /\ [][NextWrap]_vars

\* ------------------------------------------------------------------------
\* The loop of __get_wrap_points turn by turn (SpecWrapLoop): wpRest is
\* the local string, wpProcessed the local processed, wpPoints the local
\* locations; wpDone when the function has returned.
\* ------------------------------------------------------------------------
\* one turn of "while string", or the return when the string is empty; no
\* run of the loop over a string of n characters has more than n + 1
\* locations
WrapStep ==
    /\ ~wpDone
    /\ Len(wpPoints) <= Len(wpString) + 1
    /\ IF wpRest = <<>>
       THEN wpDone' = TRUE /\ UNCHANGED <<wpRest, wpProcessed, wpPoints>>
       ELSE LET it == WrapIter(wpRest, wpProcessed, wpPoints, wpStartY, wpWidth)
            IN /\ wpDone' = it.break
               /\ wpRest' = it.str
               /\ wpProcessed' = it.processed
               /\ wpPoints' = it.locations
    /\ UNCHANGED <<wpString, wpStartY, wpStartX, wpWidth, wrapRest>>

NextWrapLoop == WrapStep

\* the calls whose loop is followed turn by turn
WrapLoopInit == WrapInit /\ Len(wpString) <= MaxLoopLen

\* the function runs on: nothing outside it can hold up a turn of the loop
SpecWrapLoop == WrapLoopInit /\ [][NextWrapLoop]_vars /\ WF_vars(WrapStep)

\* ------------------------------------------------------------------------
\* ListComponent.__get_size and render (SpecLayout).  The surface render
\* is given has its origin at (0, 0): context.bounds is
\* (top 0, bottom height, left 0, right width).
\* ------------------------------------------------------------------------
layRest == <<coreVars, guardVars, clipVars, wrapVars, fmtVars, colorVars, faultVars, moreVars>>

Directions == {"top_to_bottom", "left_to_right"}

\* the extent of the surface along the list
Extent(dir, h, w) == IF dir = "top_to_bottom" THEN h ELSE w

\* mutant: a size of 0 is not raised to 1
GetSize_NoMinimum(given, size, extent, n) ==
    IF given THEN size ELSE extent \div n

\* __get_size(context) of a list of n >= 1 components
GetSize(given, size, extent, n) ==
    LET sz == IF given THEN size ELSE extent \div n
    IN IF sz < 1 THEN 1 ELSE sz

RECURSIVE ListLoop(_, _, _, _, _, _)
\* the loop of render over the components from the i-th on (lines 814-852):
\* the bounds component._render is called with, in call order
ListLoop(i, n, offset, size, dir, b) ==
    IF i > n \/ offset >= Extent(dir, b.bottom, b.right) THEN <<>>
    ELSE <<IF dir = "top_to_bottom"
           THEN Rect(b.top + offset, Min(b.top + offset + size, b.bottom),
                     b.left, b.right)
           ELSE Rect(b.top, b.bottom,
                     b.left + offset, Min(b.left + offset + size, b.right))>>
         \o ListLoop(i + 1, n, offset + size, size, dir, b)

\* ListComponent.render
ListRender(n, dir, given, size, visible, b) ==
    IF n = 0 \/ ~visible THEN <<>>
    ELSE ListLoop(1, n, 0, GetSize(given, size, Extent(dir, b.bottom, b.right), n),
                  dir, b)

DrawLayout ==
    /\ lyN \in 0..MaxKids
    /\ lyDir \in Directions
    /\ lyGiven \in BOOLEAN
    /\ lySize \in (IF lyGiven THEN 0..MaxGiven ELSE {0})
    /\ lyVisible \in BOOLEAN
    /\ lyHeight \in (IF lyDir = "top_to_bottom" THEN 0..MaxExtent ELSE 1..MaxAcross)
    /\ lyWidth \in (IF lyDir = "top_to_bottom" THEN 1..MaxAcross ELSE 0..MaxExtent)
    /\ lyDone = FALSE
    /\ lyAllot = <<>>

LayoutInit ==
    /\ InitLoop /\ IdleMouse /\ IdleList /\ InitCoreWidgets
    /\ InitGuard /\ IdleClip /\ IdleWrap /\ DrawLayout /\ IdleFmt /\ InitColor
    /\ InitFault /\ IdleMore

LayoutRender ==
    /\ ~lyDone
    /\ lyDone' = TRUE
    /\ lyAllot' = ListRender(lyN, lyDir, lyGiven, lySize, lyVisible,
                             Rect(0, lyHeight, 0, lyWidth))
    /\ UNCHANGED <<lyN, lyDir, lyGiven, lySize, lyVisible, lyHeight, lyWidth, layRest>>

NextLayout == LayoutRender

SpecLayout == LayoutInit /\ [][NextLayout]_vars

\* ------------------------------------------------------------------------
\* RenderContext.__split_formatted_string, __sanitize and
\* formatted_string_length (SpecFmt).  A string is a sequence of characters.
\* ------------------------------------------------------------------------
fmtRest == <<coreVars, guardVars, clipVars, wrapVars, layVars, colorVars, faultVars, moreVars>>

RECURSIVE SplitLoop(_, _, _, _)
\* the scan of __split_formatted_string from the i-th character on, with
\* the accumulator and the parts found so far
SplitLoop(str, i, accumulator, parts) ==
    IF i > Len(str)
    THEN IF accumulator # <<>> THEN Append(parts, accumulator) ELSE parts
    ELSE IF str[i] = "<"
         THEN SplitLoop(str, i + 1, <<str[i]>>,
                        IF accumulator # <<>> THEN Append(parts, accumulator)
                        ELSE parts)
         ELSE IF str[i] = ">"
              THEN LET acc == Append(accumulator, str[i])
                   IN IF acc[1] = "<"
                      THEN SplitLoop(str, i + 1, <<>>, Append(parts, acc))
                      ELSE SplitLoop(str, i + 1, acc, parts)
              ELSE SplitLoop(str, i + 1, Append(accumulator, str[i]), parts)

SplitFormattedString(str) == SplitLoop(str, 1, <<>>, <<>>)

RECURSIVE Replace(_, _, _)
\* str.replace(old, new): every occurrence of old, found from the left
\* without overlap, becomes new
Replace(str, old, new) ==
    IF Len(str) < Len(old) THEN str
    ELSE IF SubSeq(str, 1, Len(old)) = old
         THEN new \o Replace(SubSeq(str, Len(old) + 1, Len(str)), old, new)
         ELSE <<str[1]>> \o Replace(Tail(str), old, new)

EscLt == <<"&", "l", "t", ";">>
EscGt == <<"&", "g", "t", ";">>
EscAmp == <<"&", "a", "m", "p", ";">>

\* mutant: &amp; is replaced first
Sanitize_AmpFirst(str) ==
    Replace(Replace(Replace(str, EscAmp, <<"&">>), EscLt, <<"<">>), EscGt, <<">">>)

\* __sanitize
Sanitize(str) ==
    Replace(Replace(Replace(str, EscLt, <<"<">>), EscGt, <<">">>), EscAmp, <<"&">>)

RECURSIVE SumParts(_, _)
SumParts(parts, k) ==
    IF k > Len(parts) THEN 0
    ELSE (IF parts[k][1] = "<" /\ parts[k][Len(parts[k])] = ">" THEN 0
          ELSE Len(Sanitize(parts[k])))
         + SumParts(parts, k + 1)

FormattedStringLength(str) == SumParts(SplitFormattedString(str), 1)

\* the pieces the strings are made of: markup characters, escapes, the
\* tails of escapes and a letter
FmtTokens == {<<"<">>, <<">">>, <<"&">>, <<";">>, <<"a">>, EscLt, EscGt, EscAmp,
              <<"l", "t", ";">>}

RECURSIVE Pieces(_)
\* the strings of up to n pieces
Pieces(n) ==
    IF n = 0 THEN {<<>>}
    ELSE LET shorter == Pieces(n - 1)
         IN shorter \cup {p \o t : p \in shorter, t \in FmtTokens}

\* 'plain' and '<red>hi</red>'
FmtPlain == <<"p", "l", "a", "i", "n">>
FmtRedHi == <<"<", "r", "e", "d", ">", "h", "i", "<", "/", "r", "e", "d", ">">>
FmtExamples == {FmtPlain, FmtRedHi}

DrawFmt ==
    /\ fsString \in Pieces(MaxTokens) \cup FmtExamples
    /\ fsDone = FALSE
    /\ fsLength = 0

FmtInit ==
    /\ InitLoop /\ IdleMouse /\ IdleList /\ InitCoreWidgets
    /\ InitGuard /\ IdleClip /\ IdleWrap /\ IdleLay /\ DrawFmt /\ InitColor
    /\ InitFault /\ IdleMore

FmtCall ==
    /\ ~fsDone
    /\ fsDone' = TRUE
    /\ fsLength' = FormattedStringLength(fsString)
    /\ UNCHANGED <<fsString, fmtRest>>

NextFmt == FmtCall

SpecFmt == FmtInit /\ [][NextFmt]_vars

\* ------------------------------------------------------------------------
\* RenderContext.__get_color (SpecColor), called through the surface of
\* the screen or a sub-surface made by clip.
\* ------------------------------------------------------------------------
colorRest == <<coreVars, guardVars, clipVars, wrapVars, layVars, fmtVars, faultVars, moreVars>>

Surfaces == {"screen", "sub"}

\* the curses colour of a Color: curses.COLOR_RED, curses.COLOR_BLUE, or -1
CursesColor(color) ==
    IF color = "RED" THEN 1 ELSE IF color = "BLUE" THEN 4 ELSE -1

\* mutant: the slot does not depend on the table
NextColor_Fixed(table) == 1

\* nextcolor: len(self.__color_table.keys())
NextColor(table) == Cardinality(DOMAIN table)

\* table with table[key] = id
TableWith(table, key, id) ==
    [k \in DOMAIN table \cup {key} |-> IF k = key THEN id ELSE table[k]]

\* __get_color(forecolor, backcolor) through a surface; init_pair of the
\* driver succeeds (ok) or raises
GetColorCall ==
    \E surface \in Surfaces, forecolor, backcolor \in Colors, ok \in BOOLEAN :
       LET colorkey == ColorKey(forecolor, backcolor)
           nextcolor == NextColor(colorTable)
           call == [surface |-> surface, fore |-> forecolor, back |-> backcolor,
                    id |-> 0, cached |-> FALSE, raised |-> FALSE]
       IN /\ colorkey \in DOMAIN colorTable
             \/ Cardinality(DOMAIN colorTable) <= MaxPairs
          /\ IF colorkey \in DOMAIN colorTable
             THEN /\ crLast' = [call EXCEPT !.id = colorTable[colorkey],
                                            !.cached = TRUE]
                  /\ UNCHANGED <<colorTable, crPairs, crInits>>
             ELSE IF ~ok
                  THEN /\ crLast' = [call EXCEPT !.raised = TRUE]
                       /\ UNCHANGED <<colorTable, crPairs, crInits>>
                  ELSE /\ crPairs' = TableWith(crPairs, nextcolor,
                                               <<CursesColor(forecolor),
                                                 CursesColor(backcolor)>>)
                       /\ crInits' = [crInits EXCEPT ![colorkey] = @ + 1]
                       /\ colorTable' = TableWith(colorTable, colorkey, nextcolor)
                       /\ crLast' = [call EXCEPT !.id = nextcolor]
          /\ UNCHANGED colorRest

NextColorStep == GetColorCall

SpecColor == Init /\ [][NextColorStep]_vars

\* ------------------------------------------------------------------------
\* Component._render with a driver whose calls may raise CursesError
\* (SpecFault).  The component is a MenuEntryComponent, which draws with
\* draw_formatted_string without wrap, or a visible LabelComponent without
\* invert and background, which draws with wrap.  derwin, move and addstr
\* may raise; clear and init_pair are taken to succeed.
\* ------------------------------------------------------------------------
faultRest == <<coreVars, guardVars, clipVars, wrapVars, layVars, fmtVars, colorVars,
               moreVars>>

\* the driver calls of draw_formatted_string(y, x, string) without wrap and
\* one text part: move(y, x + offset), then addstr(text, attributes)
DrawFormattedNoWrap == <<"move", "addstr">>

RECURSIVE DrawWrapped(_)
\* the driver calls of draw_string and draw_formatted_string with wrap:
\* one addstr for every line
DrawWrapped(lines) ==
    IF lines = 0 THEN <<>> ELSE <<"addstr">> \o DrawWrapped(lines - 1)

\* the driver calls of render(subcontext), in order
RenderScript(kind, expandable, lines) ==
    IF kind = "MenuEntryComponent"
    THEN <<"clear", "clear">> \o DrawFormattedNoWrap
         \o (IF expandable THEN DrawFormattedNoWrap ELSE <<>>)
    ELSE <<"clear">> \o DrawWrapped(lines)

\* the driver call is inside try ... except CursesError: pass
Guarded(op) == op = "addstr"

\* the driver calls that may raise
MayRaise(op) == op \in {"derwin", "move", "addstr"}

\* MenuEntryComponent(...) or LabelComponent(...): __rendered is False
FtConstruct ==
    /\ ftPc = "idle" /\ ftKind = None
    /\ \E kind \in {"MenuEntryComponent", "LabelComponent"} :
          /\ ftKind' = kind
          /\ IF kind = "MenuEntryComponent"
             THEN ftExpandable' \in BOOLEAN /\ ftLines' = 0
             ELSE ftExpandable' = FALSE /\ ftLines' \in 1..MaxLines
    /\ ftRendered' = FALSE
    /\ UNCHANGED <<ftPc, ftHeld, ftScript, ftLog, ftOutcome, faultRest>>

\* component._render(context, bounds) is called
FtRenderCall ==
    /\ ftPc = "idle" /\ ftKind # None
    /\ ftPc' = "clip"
    /\ ftLog' = <<>>
    /\ ftOutcome' = None
    /\ UNCHANGED <<ftKind, ftExpandable, ftLines, ftRendered, ftHeld, ftScript,
                   faultRest>>

\* with context.clip(bounds): derwin makes the sub-surface, which is
\* yielded; if derwin raises, the generator catches the CursesError and
\* ends without a yield, and the with statement raises RuntimeError
FtClip ==
    /\ ftPc = "clip"
    /\ \E ok \in BOOLEAN :
          /\ ftLog' = Append(ftLog, [op |-> "derwin", ok |-> ok])
          /\ IF ok
             THEN ftPc' = "lock" /\ UNCHANGED ftOutcome
             ELSE ftPc' = "done" /\ ftOutcome' = "RuntimeError"
    /\ UNCHANGED <<ftKind, ftExpandable, ftLines, ftRendered, ftHeld, ftScript,
                   faultRest>>

\* self.location = ...; with self.lock: render starts
FtAcquire ==
    /\ ftPc = "lock" /\ ~ftHeld
    /\ ftHeld' = TRUE
    /\ ftScript' = RenderScript(ftKind, ftExpandable, ftLines)
    /\ ftPc' = "render"
    /\ UNCHANGED <<ftKind, ftExpandable, ftLines, ftRendered, ftLog, ftOutcome,
                   faultRest>>

\* the next driver call of render.  A CursesError of a guarded call is
\* dropped; one of an unguarded call leaves render, releases the lock and
\* is dropped by the except of clip, so that _render returns
FtDriverCall ==
    /\ ftPc = "render" /\ ftScript # <<>>
    /\ LET op == Head(ftScript)
       IN \E ok \in (IF MayRaise(op) THEN BOOLEAN ELSE {TRUE}) :
             /\ ftLog' = Append(ftLog, [op |-> op, ok |-> ok])
             /\ IF ok \/ Guarded(op)
                THEN /\ ftScript' = Tail(ftScript)
                     /\ UNCHANGED <<ftPc, ftHeld, ftOutcome>>
                ELSE /\ ftScript' = <<>>
                     /\ ftHeld' = FALSE
                     /\ ftOutcome' = "returned"
                     /\ ftPc' = "done"
    /\ UNCHANGED <<ftKind, ftExpandable, ftLines, ftRendered, faultRest>>

\* self.__rendered = True, the last statement of render
FtMark ==
    /\ ftPc = "render" /\ ftScript = <<>>
    /\ ftRendered' = TRUE
    /\ ftPc' = "release"
    /\ UNCHANGED <<ftKind, ftExpandable, ftLines, ftHeld, ftScript, ftLog,
                   ftOutcome, faultRest>>

\* the with statements end and _render returns
FtReturn ==
    /\ ftPc = "release"
    /\ ftHeld' = FALSE
    /\ ftOutcome' = "returned"
    /\ ftPc' = "done"
    /\ UNCHANGED <<ftKind, ftExpandable, ftLines, ftRendered, ftScript, ftLog,
                   faultRest>>

\* the caller goes on; the component stays as it is, until a setter of
\* the component makes it dirty again
FtInvalidate ==
    /\ ftPc = "done" /\ ftOutcome = "returned"
    /\ ftPc' = "idle"
    /\ ftRendered' \in {ftRendered, FALSE}
    /\ UNCHANGED <<ftKind, ftExpandable, ftLines, ftHeld, ftScript, ftLog,
                   ftOutcome, faultRest>>

NextFault ==
    \/ FtConstruct \/ FtRenderCall \/ FtClip \/ FtAcquire \/ FtDriverCall
    \/ FtMark \/ FtReturn \/ FtInvalidate

SpecFault == Init /\ [][NextFault]_vars

\* ------------------------------------------------------------------------
\* handle_input of the composites (SpecComposite), over the values the
\* _handle_input of their children returns (ChildResults).
\* ------------------------------------------------------------------------
compositeRest == <<coreVars, guardVars, clipVars, wrapVars, layVars, fmtVars,
                   colorVars, faultVars, dgVars, tiVars, lkVars, ckVars>>

Wrappers == {"PaddingComponent", "BorderComponent", "CenteredComponent"}
Aggregates == {"ListComponent", "StickyComponent"}
Composites ==
    Wrappers \cup Aggregates \cup {"DialogBoxComponent", "TabComponent"}

Deferral(r) == r \in {"defer_t", "defer_f"}

CpAnswer(result, asked, defs) ==
    [result |-> result, asked |-> asked, deferred |-> defs, escape |-> FALSE]

RECURSIVE AggregateLoop(_, _, _)
\* ListComponent and StickyComponent: the loop over the components from
\* the i-th on and what follows it
AggregateLoop(kids, i, defs) ==
    IF i > Len(kids)
    THEN CpAnswer(IF defs = <<>> THEN "false" ELSE "defer", Len(kids), defs)
    ELSE IF kids[i] = "true" THEN CpAnswer("true", i, <<>>)
    ELSE AggregateLoop(kids, i + 1,
                       IF Deferral(kids[i]) THEN Append(defs, i) ELSE defs)

\* PaddingComponent, BorderComponent, CenteredComponent: what the child
\* returns
WrapperHandle(kids) ==
    CpAnswer(IF Deferral(kids[1]) THEN "defer" ELSE kids[1], 1,
             IF Deferral(kids[1]) THEN <<1>> ELSE <<>>)

\* mutant: a boolean of the child is handed on as it is
DialogBoxHandle_PassThrough(kids, ev, escape) ==
    IF ev = "esc" /\ escape
    THEN [CpAnswer("true", 0, <<>>) EXCEPT !.escape = TRUE]
    ELSE WrapperHandle(kids)

\* DialogBoxComponent.handle_input
DialogBoxHandle(kids, ev, escape) ==
    IF ev = "esc" /\ escape
    THEN [CpAnswer("true", 0, <<>>) EXCEPT !.escape = TRUE]
    ELSE IF Deferral(kids[1]) THEN CpAnswer("defer", 1, <<1>>)
    ELSE CpAnswer("true", 1, <<>>)

RECURSIVE TabLoop(_, _)
\* TabComponent: "if component._handle_input(event): return True" over
\* the buttons and the border of the selected tab; a DeferredInput is a
\* function, which is true
TabLoop(kids, i) ==
    IF i > Len(kids) THEN CpAnswer("false", Len(kids), <<>>)
    ELSE IF kids[i] # "false" THEN CpAnswer("true", i, <<>>)
    ELSE TabLoop(kids, i + 1)

\* handle_input(event) of the composite
CompositeHandle(kind, kids, ev, escape) ==
    IF kind \in Aggregates THEN AggregateLoop(kids, 1, <<>>)
    ELSE IF kind \in Wrappers THEN WrapperHandle(kids)
    ELSE IF kind = "DialogBoxComponent" THEN DialogBoxHandle(kids, ev, escape)
    ELSE IF ev = "tab" THEN CpAnswer("true", 0, <<>>)
    ELSE TabLoop(kids, 1)

RECURSIVE DeferLoop(_, _, _)
\* _defer of ListComponent and StickyComponent from the i-th callback on:
\* the children whose callback is called, and what _defer returns
DeferLoop(kids, defs, i) ==
    IF i > Len(defs) THEN [calls |-> <<>>, result |-> FALSE]
    ELSE IF kids[defs[i]] = "defer_t"
         THEN [calls |-> <<defs[i]>>, result |-> TRUE]
         ELSE LET rest == DeferLoop(kids, defs, i + 1)
              IN [rest EXCEPT !.calls = <<defs[i]>> \o @]

\* the DeferredInput the composite returned, called
CompositeDefer(kind, kids, defs) ==
    IF kind \in Aggregates THEN DeferLoop(kids, defs, 1)
    ELSE IF kind = "DialogBoxComponent" THEN [calls |-> <<1>>, result |-> TRUE]
    ELSE [calls |-> <<1>>, result |-> kids[1] = "defer_t"]

CpEvents == {"key", "tab", "esc", "mouse"}

\* the children of a composite: one for the wrappers and the dialog, up to
\* MaxKids for the others; the buttons of a TabComponent, which come before
\* the border of the selected tab, return booleans
DrawComposite ==
    /\ cpKind \in Composites
    /\ cpKids \in {k \in SeqsUpTo(ChildResults, MaxKids) :
                     /\ Len(k) >= 1
                     /\ cpKind \in Wrappers \cup {"DialogBoxComponent"} => Len(k) = 1
                     /\ cpKind = "TabComponent" =>
                           /\ Len(k) >= 2
                           /\ \A i \in 1..(Len(k) - 1) : ~Deferral(k[i])}
    /\ cpEvent \in CpEvents
    /\ cpEscape \in (IF cpKind = "DialogBoxComponent" THEN BOOLEAN ELSE {FALSE})
    /\ cpTabs = IF cpKind = "TabComponent" THEN Len(cpKids) - 1 ELSE 0
    /\ cpSelected \in (IF cpKind = "TabComponent" THEN 0..(cpTabs - 1) ELSE {0})
    /\ cpPc = "idle" /\ cpResult = None /\ cpAsked = 0 /\ cpDeferred = <<>>
    /\ cpCalls = <<>> /\ cpCbResult = None /\ cpClaimed = FALSE

CompositeInit ==
    /\ InitLoop /\ IdleMouse /\ IdleList /\ InitCoreWidgets
    /\ InitGuard /\ IdleClip /\ IdleWrap /\ IdleLay /\ IdleFmt /\ InitColor
    /\ InitFault
    /\ DrawComposite /\ IdleDialog /\ InitTextInput /\ InitLocks /\ InitClicks

\* the caller offers the event to the composite
CpHandle ==
    /\ cpPc = "idle"
    /\ LET a == CompositeHandle(cpKind, cpKids, cpEvent, cpEscape)
       IN /\ cpResult' = a.result
          /\ cpAsked' = a.asked
          /\ cpDeferred' = a.deferred
          /\ cpCalls' = IF a.escape THEN <<0>> ELSE <<>>
          /\ cpPc' = IF a.result = "defer" THEN "deferred" ELSE "done"
    /\ cpSelected' = IF cpKind = "TabComponent" /\ cpEvent = "tab"
                     THEN (cpSelected + 1) % cpTabs ELSE cpSelected
    /\ UNCHANGED <<cpKind, cpKids, cpEvent, cpEscape, cpTabs, cpCbResult,
                   cpClaimed, compositeRest>>

\* the caller found nobody that claimed the event and calls the callback
CpCallback ==
    /\ cpPc = "deferred"
    /\ LET d == CompositeDefer(cpKind, cpKids, cpDeferred)
       IN /\ cpCalls' = cpCalls \o d.calls
          /\ cpCbResult' = IF d.result THEN "true" ELSE "false"
    /\ cpPc' = "done"
    /\ UNCHANGED <<cpKind, cpKids, cpEvent, cpEscape, cpSelected, cpTabs,
                   cpResult, cpAsked, cpDeferred, cpClaimed, compositeRest>>

\* the event was claimed before the callback's turn: it is dropped
CpDropped ==
    /\ cpPc = "deferred"
    /\ cpClaimed' = TRUE
    /\ cpPc' = "done"
    /\ UNCHANGED <<cpKind, cpKids, cpEvent, cpEscape, cpSelected, cpTabs,
                   cpResult, cpAsked, cpDeferred, cpCalls, cpCbResult,
                   compositeRest>>

NextComposite == CpHandle \/ CpCallback \/ CpDropped

SpecComposite == CompositeInit /\ [][NextComposite]_vars

\* ------------------------------------------------------------------------
\* DialogBoxComponent as the newest registered overlay (SpecDialog).  An
\* option is named by one letter, which is its hotkey ("&y").  The dialog
\* holds Padding(Border(Padding(Sticky(List(Padding(Button) ...), Label)))).
\* ------------------------------------------------------------------------
dialogRest == <<coreVars, guardVars, clipVars, wrapVars, layVars, fmtVars,
                colorVars, faultVars, cpVars, tiVars, lkVars, ckVars>>

OptionNames == <<"y", "n", "c">>

\* the option lists: up to MaxOptions names in any order, none twice
OptionLists ==
    {o \in SeqsUpTo(Range(OptionNames), MaxOptions) :
        /\ Len(o) >= 1
        /\ \A i, j \in 1..Len(o) : i # j => o[i] # o[j]}

\* the events: a key, Escape, a mouse button pressed on the i-th button
\* (on > 0), inside the dialog beside the buttons (0) or outside the dialog
\* (-1), and the wheel
DgEvents ==
    {[kind |-> "key", character |-> ch] : ch \in Range(OptionNames) \cup {"q", "esc"}}
    \cup {[kind |-> "mouse", on |-> i, button |-> b] :
             i \in -1..MaxOptions, b \in {"LEFT", "MIDDLE"}}
    \cup {[kind |-> "scroll"]}

\* __cb(button, option, callback): the callbacks called, with the option
\* they are given
OptionCb(button, i) ==
    IF button \in {"LEFT", "KEY"} THEN <<[of |-> dgOptions[i], name |-> dgOptions[i]]>>
    ELSE <<>>

\* _handle_input of the i-th button (HotkeyableComponent, then
\* ClickableComponent, then Component), whose callback is __closure_cb
ButtonHandle(i, ev) ==
    IF ev.kind = "key" /\ ev.character = dgOptions[i]
    THEN [calls |-> OptionCb("KEY", i), result |-> "true"]
    ELSE IF ev.kind = "mouse" /\ ev.on = i
         THEN [calls |-> OptionCb(ev.button, i), result |-> "true"]
         ELSE [calls |-> <<>>, result |-> "false"]

\* what the child of the dialog returns: the wrappers hand on what the
\* StickyComponent makes of the list of buttons and the label
DialogChild(ev) ==
    LET buttons == [i \in 1..Len(dgOptions) |-> ButtonHandle(i, ev).result]
        list == AggregateLoop(buttons, 1, <<>>).result
        sticky == AggregateLoop(<<list, "false">>, 1, <<>>).result
    IN WrapperHandle(<<WrapperHandle(<<WrapperHandle(<<sticky>>).result>>).result>>).result

\* the callbacks the buttons call: those of the first button that claims
DialogChildCalls(ev) ==
    LET claims == {i \in 1..Len(dgOptions) : ButtonHandle(i, ev).result = "true"}
    IN IF claims = {} THEN <<>>
       ELSE ButtonHandle(CHOOSE i \in claims : \A j \in claims : i <= j, ev).calls

\* self.__escape_callback: None, or the lambda made in the loop over the
\* options, whose option and callback are the variables of the loop,
\* read when it is called
EscapeCallback ==
    IF \E i \in 1..Len(dgOptions) : dgOptions[i] = dgEscape
    THEN <<[of |-> dgOptions[Len(dgOptions)], name |-> dgOptions[Len(dgOptions)]]>>
    ELSE <<>>

HasEscape == \E i \in 1..Len(dgOptions) : dgOptions[i] = dgEscape

DrawDialog ==
    /\ dgOptions \in OptionLists
    /\ dgEscape \in {None} \cup Range(dgOptions)
    /\ dgRendered = FALSE
    /\ dgEvent = NoEvent /\ dgPc = "idle" /\ dgHandled = FALSE
    /\ dgCalls = <<>> /\ dgOffered = <<>> /\ dgSceneAsked = FALSE

DialogInit ==
    /\ InitLoop /\ IdleMouse /\ IdleList /\ InitCoreWidgets
    /\ InitGuard /\ IdleClip /\ IdleWrap /\ IdleLay /\ IdleFmt /\ InitColor
    /\ InitFault
    /\ IdleComposite /\ DrawDialog /\ InitTextInput /\ InitLocks /\ InitClicks

\* the render pass of a later cycle: _render caches the location of the
\* dialog; what was noted of the event before is dropped
DgRender ==
    /\ dgPc = "idle"
    /\ ~dgRendered
    /\ dgRendered' = TRUE
    /\ dgEvent' = NoEvent
    /\ dgHandled' = FALSE
    /\ dgCalls' = <<>> /\ dgOffered' = <<>> /\ dgSceneAsked' = FALSE
    /\ UNCHANGED <<dgOptions, dgEscape, dgPc, dialogRest>>

\* an event is decoded
DgPoll ==
    /\ dgPc = "idle"
    /\ dgEvent' \in {e \in DgEvents : e.kind = "mouse" => e.on <= Len(dgOptions)}
    /\ dgPc' = "overlays"
    /\ dgHandled' = FALSE
    /\ dgCalls' = <<>> /\ dgOffered' = <<>> /\ dgSceneAsked' = FALSE
    /\ UNCHANGED <<dgOptions, dgEscape, dgRendered, dialogRest>>

\* the loop over the overlays: dialog._handle_input(event).  A mouse event
\* reaches handle_input when the dialog has a location: as it is inside
\* the location, as a DefocusInputEvent outside
DgOffer ==
    /\ dgPc = "overlays"
    /\ IF dgEvent.kind = "mouse" /\ ~dgRendered
       THEN /\ dgHandled' = FALSE
            /\ UNCHANGED <<dgCalls, dgOffered>>
       ELSE LET ev == IF dgEvent.kind = "mouse" /\ dgEvent.on = -1
                      THEN [kind |-> "defocus", button |-> dgEvent.button]
                      ELSE dgEvent
                a == DialogBoxHandle(<<DialogChild(ev)>>,
                                     IF ev.kind = "key" /\ ev.character = "esc"
                                     THEN "esc" ELSE ev.kind,
                                     HasEscape)
            IN /\ dgHandled' = (a.result = "true")
               /\ dgCalls' = IF a.escape THEN EscapeCallback
                             ELSE DialogChildCalls(ev)
               /\ dgOffered' = Append(dgOffered, "dialog")
    /\ dgPc' = "components"
    /\ UNCHANGED <<dgOptions, dgEscape, dgRendered, dgEvent, dgSceneAsked,
                   dialogRest>>

\* the loop over the components of the scene
DgOfferBase ==
    /\ dgPc = "components"
    /\ IF dgHandled THEN UNCHANGED <<dgHandled, dgOffered>>
       ELSE /\ dgHandled' \in BOOLEAN
            /\ dgOffered' = Append(dgOffered, "base")
    /\ dgPc' = "scene"
    /\ UNCHANGED <<dgOptions, dgEscape, dgRendered, dgEvent, dgCalls,
                   dgSceneAsked, dialogRest>>

\* scene.handle_input(event) when nobody handled the event
DgSceneInput ==
    /\ dgPc = "scene"
    /\ dgSceneAsked' = ~dgHandled
    /\ dgPc' = "idle"
    /\ UNCHANGED <<dgOptions, dgEscape, dgRendered, dgEvent, dgHandled, dgCalls,
                   dgOffered, dialogRest>>

NextDialog == DgRender \/ DgPoll \/ DgOffer \/ DgOfferBase \/ DgSceneInput

SpecDialog == DialogInit /\ [][NextDialog]_vars

\* ------------------------------------------------------------------------
\* Properties of the scheduler
\* ------------------------------------------------------------------------
\* the components of the live tree: the base components with their layout
\* children, and the overlays of the registry
InTree(c) == c \in Range(RenderOrder)

\* in a log of detach() calls every call for p comes after a call for each
\* child p had registered
ChildrenFirst(log) ==
    \A i \in 1..Len(log) :
        \A k \in Range(children[log[i]]) :
            k # log[i] => \E j \in 1..(i - 1) : log[j] = k

\* ------------------------------------------------------------------------
\* TextInputComponent (SpecTextInput).  allowed_characters is "Ab"; the
\* keys typed are the characters a, b, B, x and Left, Right, Delete,
\* Backspace.
\* ------------------------------------------------------------------------
textInputRest == <<coreVars, guardVars, clipVars, wrapVars, layVars, fmtVars,
                   colorVars, faultVars, cpVars, dgVars, lkVars, ckVars>>

AllowedCharacters == {"A", "b"}
TiChars == {"a", "b", "B", "x"}
TiKeys == TiChars \cup {"KEY_LEFT", "KEY_RIGHT", "KEY_DC", "KEY_BACKSPACE"}

\* str.upper on the characters typed
Upper(ch) ==
    CASE ch = "a" -> "A" [] ch = "b" -> "B" [] ch = "x" -> "X" [] OTHER -> ch

\* if self.__cursor <= len(self.__text)
CanMoveRight(cursor, text) == cursor <= Len(text)

\* the state of a text input: text, cursor, changed
\* add(char) of handle_input
Add(t, char) ==
    IF t.max = -1 \/ Len(t.text) < t.max
    THEN [t EXCEPT !.text = PySlice(t.text, 0, t.cursor) \o <<char>>
                            \o PySlice(t.text, t.cursor, Len(t.text)),
                   !.cursor = @ + 1, !.changed = TRUE]
    ELSE t

\* handle_input for a KeyboardInputEvent of character k while focused
TextInputKey(t, k) ==
    CASE k = "KEY_LEFT" ->
            IF t.cursor > 0 THEN [t EXCEPT !.cursor = @ - 1, !.changed = TRUE]
            ELSE t
      [] k = "KEY_RIGHT" ->
            IF CanMoveRight(t.cursor, t.text)
            THEN [t EXCEPT !.cursor = @ + 1, !.changed = TRUE] ELSE t
      [] k \in AllowedCharacters -> Add(t, k)
      [] k \notin AllowedCharacters /\ Upper(k) \in AllowedCharacters ->
            Add(t, Upper(k))
      [] /\ k \notin AllowedCharacters /\ Upper(k) \notin AllowedCharacters
         /\ Lower(k) \in AllowedCharacters -> Add(t, Lower(k))
      [] k = "KEY_DC" ->
            IF t.cursor < Len(t.text)
            THEN [t EXCEPT !.text = PySlice(t.text, 0, t.cursor)
                                    \o PySlice(t.text, t.cursor + 1, Len(t.text)),
                           !.changed = TRUE]
            ELSE t
      [] k = "KEY_BACKSPACE" ->
            IF t.cursor > 0
            THEN [t EXCEPT !.text = PySlice(t.text, 0, t.cursor - 1)
                                    \o PySlice(t.text, t.cursor, Len(t.text)),
                           !.cursor = @ - 1, !.changed = TRUE]
            ELSE t
      [] OTHER -> t

TextInput ==
    [text |-> tiText, cursor |-> tiCursor, max |-> tiMax, changed |-> tiChanged]

TiCommit(t, op) ==
    /\ tiText' = t.text
    /\ tiCursor' = t.cursor
    /\ tiChanged' = t.changed
    /\ tiLast' = [op |-> op, cursor |-> tiCursor, len |-> Len(tiText)]
    /\ UNCHANGED <<tiMax, textInputRest>>

\* TextInputComponent(text, allowed_characters="Ab", focused=...,
\* max_length=..., cursor_pos=...)
DrawTextInput ==
    /\ tiText \in UNION {[1..n -> AllowedCharacters] : n \in 0..2}
    /\ tiFocused \in BOOLEAN
    /\ tiMax \in {-1, 2}
    /\ \E cursor_pos \in -1..MaxText :
          tiCursor = Min(Max(0, IF cursor_pos = -1 THEN Len(tiText) ELSE cursor_pos),
                         Len(tiText))
    /\ tiChanged = TRUE
    /\ tiLast = NoCallYet

TextInputInit ==
    /\ InitLoop /\ IdleMouse /\ IdleList /\ InitCoreWidgets
    /\ InitGuard /\ IdleClip /\ IdleWrap /\ IdleLay /\ IdleFmt /\ InitColor
    /\ InitFault
    /\ IdleComposite /\ IdleDialog /\ DrawTextInput /\ InitLocks /\ InitClicks

\* handle_input(KeyboardInputEvent(k)); the text grows to MaxText
\* characters at most
TiKey ==
    \E k \in TiKeys :
        /\ Len(tiText) < MaxText \/ k \notin TiChars
        /\ TiCommit(IF tiFocused THEN TextInputKey(TextInput, k) ELSE TextInput, k)
        /\ UNCHANGED tiFocused

\* the text setter
TiSetText ==
    \E text \in UNION {[1..n -> AllowedCharacters] : n \in 0..2} :
        /\ TiCommit([TextInput EXCEPT !.changed = IF @ THEN TRUE ELSE tiText # text,
                                       !.text = text, !.cursor = Len(text)],
                    "text")
        /\ UNCHANGED tiFocused

\* the cursor setter
TiSetCursor ==
    \E cursor \in -1..(MaxText + 1) :
        /\ TiCommit([TextInput EXCEPT
                        !.changed = IF @ THEN TRUE ELSE tiCursor # cursor,
                        !.cursor = Min(Max(0, cursor), Len(tiText))], "cursor")
        /\ UNCHANGED tiFocused

\* the focus setter
TiSetFocus ==
    \E focus \in BOOLEAN :
        /\ TiCommit([TextInput EXCEPT !.changed = IF @ THEN TRUE ELSE tiFocused # focus],
                    "focus")
        /\ tiFocused' = focus

\* render: a focused input brings its cursor back into the text
TiRender ==
    /\ TiCommit([TextInput EXCEPT !.changed = FALSE,
                    !.cursor = IF tiFocused THEN Min(Max(0, @), Len(tiText)) ELSE @],
                "render")
    /\ UNCHANGED tiFocused

NextTextInput == TiKey \/ TiSetText \/ TiSetCursor \/ TiSetFocus \/ TiRender

SpecTextInput == TextInputInit /\ [][NextTextInput]_vars


\* ------------------------------------------------------------------------
\* The component locks (SpecLocks).  The tree is TabComponent([(name,
\* content)]): the tab holds a ButtonComponent, which holds
\* BorderComponent(PaddingComponent(LabelComponent)), and a
\* BorderComponent around the content, a LabelComponent the application
\* keeps a reference to.  The scheduler thread renders and handles input;
\* an external thread calls setters.  Lock() is not reentrant.
\* ------------------------------------------------------------------------
locksRest == <<coreVars, guardVars, clipVars, wrapVars, layVars, fmtVars,
               colorVars, faultVars, cpVars, dgVars, tiVars, ckVars>>

\* the component that renders, or whose setter sets, each component
LockParent ==
    [l \in Locks |->
        CASE l = "button" -> "tab" [] l = "border" -> "button"
          [] l = "padding" -> "border" [] l = "label" -> "padding"
          [] l = "tabborder" -> "tab" [] l = "content" -> "tabborder"
          [] OTHER -> "none"]

Acquire(l) == [k |-> "acquire", l |-> l]
LkRelease(l) == [k |-> "release", l |-> l]

\* Component._render down a chain of components each of which renders the
\* next: "with self.lock: self.render(subcontext)"
RECURSIVE RenderChain(_)
RenderChain(chain) ==
    IF chain = <<>> THEN <<>>
    ELSE <<Acquire(Head(chain))>> \o RenderChain(Tail(chain))
         \o <<LkRelease(Head(chain))>>

\* ButtonComponent.render: self.__border._render(...)
ButtonRender == RenderChain(<<"button", "border", "padding", "label">>)

\* TabComponent._render: the button, then the border of the selected tab
TabRender ==
    <<Acquire("tab")>> \o ButtonRender \o RenderChain(<<"tabborder", "content">>)
    \o <<LkRelease("tab")>>

\* mutant: the setter of the button takes the lock of the inner component
\* before its own
ButtonSetter_InnerFirst(inner) ==
    <<Acquire(inner), Acquire("button"), LkRelease("button"), LkRelease(inner)>>

\* a setter of ButtonComponent: "with self.lock: self.__label.x = v" or
\* "with self.lock: self.__border.x = v", the inner setter taking the
\* inner lock
ButtonSetter(inner) ==
    <<Acquire("button"), Acquire(inner), LkRelease(inner), LkRelease("button")>>

\* a setter of the content label
LabelSetter == <<Acquire("content"), LkRelease("content")>>

\* TabComponent.__highlight, from __init__, handle_input and __change_tab:
\* button.invert = ... for every button
Highlight == ButtonSetter("label")

\* the calls the scheduler thread makes: a render pass, or a handle_input
\* that changes the tab
SchedCalls == {TabRender, Highlight}

\* the calls of an external thread: the setters of the button (text,
\* textcolor, invert go to the label, bordercolor and visible to the
\* border) and of the content label
ExtCalls == {ButtonSetter("label"), ButtonSetter("border"), LabelSetter}

\* a thread that is in no call makes one
LkCall(t, calls) ==
    /\ lkProg[t] = <<>>
    /\ \E prog \in calls : lkProg' = [lkProg EXCEPT ![t] = prog]
    /\ UNCHANGED <<lkHolder, locksRest>>

\* the next lock operation of the call: an acquire waits until the lock is
\* free, whoever holds it
LkStep(t) ==
    /\ lkProg[t] # <<>>
    /\ LET op == Head(lkProg[t])
       IN IF op.k = "acquire"
          THEN /\ lkHolder[op.l] = "none"
               /\ lkHolder' = [lkHolder EXCEPT ![op.l] = t]
          ELSE lkHolder' = [lkHolder EXCEPT ![op.l] = "none"]
    /\ lkProg' = [lkProg EXCEPT ![t] = Tail(@)]
    /\ UNCHANGED locksRest

SchedCall == LkCall("sched", SchedCalls)
ExtCall == LkCall("ext", ExtCalls)
SchedStep == LkStep("sched")
ExtStep == LkStep("ext")

NextLocks == SchedCall \/ ExtCall \/ SchedStep \/ ExtStep

\* a thread that waits for a lock gets it when the lock is free again and
\* again: between two render passes the scheduler thread sleeps in getkey,
\* and a setter is a few statements long
SpecLocks ==
    Init /\ [][NextLocks]_vars /\ SF_vars(SchedStep) /\ SF_vars(ExtStep)


\* C1: detach() runs exactly once per removal of an attached component:
\* no component has its detach() called twice after one attach, a component
\* that is attached and not detached is still in the tree (no removal
\* skips detach()), and registered children are detached before their
\* parent's own detach().
C1_DetachExactlyOnce ==
    /\ \A c \in Comps : detachCalls[c] <= 1
    /\ \A c \in Comps : attachedNow[c] /\ pc # "create" => InTree(c)
    /\ ChildrenFirst(detachLog)

\* C2: a detached component is never ticked or rendered: no tick() and no
\* _render() call of the scheduler is made on a component whose detach()
\* has run.
C2_NoTickOrRenderAfterDetach == staleTick = {} /\ staleRender = {}

\* C3: scene-change ordering.  When the new scene's create() is about to be
\* called, the old scene has been destroyed, every component of the old
\* scene (overlays and base tree) has been detached, children before their
\* parent, and nothing is attached; the step that creates and attaches the
\* new scene leaves an empty overlay registry and only the new base tree
\* attached.
C3_SceneChangeOrder ==
    [][ /\ pc = "create" =>
              /\ \A c \in Comps : ~attachedNow[c]
              /\ registered_components = <<>>
              /\ ChildrenFirst(detachLog)
              /\ components # <<>> =>
                    /\ destroyed
                    /\ Range(WithLayoutKids(components)) \subseteq Range(detachLog)
        /\ pc = "create" /\ pc' = "tick" =>
              /\ registered_components' = <<>>
              /\ {c \in Comps : attachedNow'[c]} = Range(WithLayoutKids(components'))
      ]_vars

\* a scene with an open menu and its submenu has been torn down and the next
\* scene is about to be created
C3_Witness ==
    /\ pc = "create"
    /\ destroyed
    /\ scene \in SceneTypes
    /\ "sub" \in Range(detachLog)

\* C4: change_scene is guarded.  Of the change_scene calls made before the
\* next cycle only the first is kept: it is the pending scene until the
\* cycle starts and the scene applied then (no exit() having been called
\* meanwhile), and the calls after the first construct no scene.
C4_ChangeSceneGuarded ==
    /\ constructed <= 1
    /\ requests >= 1 /\ ~exitCalled /\ pc # "create" => next_scene = firstRequest
    /\ requests >= 1 /\ ~exitCalled /\ pc = "create" => scene = firstRequest

\* two requests for different scenes were made and the first was applied
C4_Witness ==
    /\ pc = "create"
    /\ requests >= 2
    /\ lastRequest # firstRequest
    /\ ~exitCalled
    /\ scene = firstRequest

\* C5: scene changes are deferred.  A step in which change_scene or exit()
\* records a request leaves the current scene, the base components and the
\* overlay registry as they are; the scene and the base components change
\* only in the transition at the top of a cycle.
C5_SceneChangeDeferred ==
    [][ /\ (next_scene' # next_scene /\ next_scene' # None) \/ requests' > requests
              => UNCHANGED <<scene, components, registered_components>>
        /\ scene' # scene \/ components' # components => pc \in {"top", "create"}
      ]_vars

\* exit() was requested from the dialog, which is still registered in the
\* scene that is still current
C5_Witness ==
    /\ next_scene = ExitScene
    /\ scene \in SceneTypes
    /\ Registered("dlg")
    /\ pc = "end"

\* C6: click state machine.  A release of button b at (x, y) gives a Mouse
\* event for b at (x, y) exactly when the press recorded for b is at the
\* same (x, y) and less than the timeout before the release, and no event
\* otherwise; a press gives no event.
C6_ClickIffMatchingPress ==
    /\ lastInput.kind = "release" =>
          LET rec == mousestate[lastInput.button]
              matching == /\ rec.x = lastInput.x
                          /\ rec.y = lastInput.y
                          /\ now - rec.t < ClickTimeout
          IN mouseEvent = IF matching
                          THEN [kind |-> "mouse", x |-> lastInput.x,
                                y |-> lastInput.y, button |-> lastInput.button]
                          ELSE NoEvent
    /\ lastInput.kind = "press" => mouseEvent = NoEvent

\* a release half a second after the press at the same place gave a click
C6_Witness ==
    /\ lastInput.kind = "release"
    /\ mouseEvent.kind = "mouse"
    /\ now - mousestate[lastInput.button].t = 1

\* the components, in order, an event has been offered to
OfferedComps == [i \in 1..Len(offered) |-> offered[i][1]]

\* the position of overlay c in the registry, 0 when it is not there
RegIndex(c) ==
    IF Registered(c)
    THEN CHOOSE i \in 1..Len(registered_components) : registered_components[i].c = c
    ELSE 0

\* the components that returned a DeferredInput, in the order they did
RECURSIVE Deferrers(_)
Deferrers(log) ==
    IF log = <<>> THEN <<>>
    ELSE IF Head(log)[2] = "defer" THEN <<Head(log)[1]>> \o Deferrers(Tail(log))
    ELSE Deferrers(Tail(log))

\* C7: dispatch stops at the first claim.  Overlays are offered the event
\* newest first and before the base components; only the last component
\* offered can have returned True, and once one has, no deferred callback
\* and not Scene.handle_input is invoked; only the last deferred callback
\* invoked can have returned True, and then Scene.handle_input is not
\* invoked; Scene.handle_input is invoked only after every component was
\* offered the event without claiming it and every deferred callback
\* returned False.
C7_DispatchStopsAtFirstClaim ==
    /\ \A i \in 1..Len(offered) : \A j \in (i + 1)..Len(offered) :
          /\ offered[i][2] # "true"
          /\ offered[i][1] \notin Range(components)
          /\ Registered(offered[i][1]) /\ Registered(offered[j][1])
                => RegIndex(offered[i][1]) > RegIndex(offered[j][1])
    /\ (\E i \in 1..Len(offered) : offered[i][2] = "true")
          => deferredRun = <<>> /\ ~sceneAsked
    /\ \A i \in 1..Len(deferredRun) : \A j \in (i + 1)..Len(deferredRun) :
          ~deferredRun[i][2]
    /\ (\E i \in 1..Len(deferredRun) : deferredRun[i][2]) => ~sceneAsked
    /\ sceneAsked =>
          /\ inputQueue = <<>>
          /\ Range(components) \subseteq Range(OfferedComps)
          /\ Len(deferredRun) = Len(Deferrers(offered))

\* the newest of two overlays claimed the event: the older overlay and the
\* base component were not offered it
C7_Witness ==
    /\ pc = "end"
    /\ Len(registered_components) = 2
    /\ Len(offered) = 1
    /\ offered[1][2] = "true"
    /\ offered[1][1] = registered_components[2].c

\* C8: deferred input at the scheduler.  A deferred callback is invoked only
\* after every overlay and base component was offered the event and none
\* returned True; the callbacks run in the order they were collected and
\* stop at the first that returns True.
C8_DeferredAfterFirstPass ==
    /\ deferredRun # <<>> =>
          /\ inputQueue = <<>>
          /\ \A i \in 1..Len(offered) : offered[i][2] # "true"
          /\ Range(components) \subseteq Range(OfferedComps)
    /\ Len(deferredRun) <= Len(Deferrers(offered))
    /\ \A i \in 1..Len(deferredRun) :
          /\ i <= Len(Deferrers(offered)) => deferredRun[i][1] = Deferrers(offered)[i]
          /\ i < Len(deferredRun) => ~deferredRun[i][2]

\* three components deferred; the first callback returned False, the second
\* True, and the third was not invoked
C8_Witness ==
    /\ Len(Deferrers(offered)) = 3
    /\ Len(deferredRun) = 2
    /\ ~deferredRun[1][2]
    /\ deferredRun[2][2]
    /\ pc = "end"

\* the positions of the children that returned a DeferredInput, in order
RECURSIVE DeferringKids(_, _)
DeferringKids(kids, n) ==
    IF n = 0 THEN <<>>
    ELSE IF kids[n] \in {"defer_t", "defer_f"}
         THEN Append(DeferringKids(kids, n - 1), n)
         ELSE DeferringKids(kids, n - 1)

\* C9: ListComponent input dispatch.  The children are tried in declaration
\* order; the first child that returns True ends the dispatch with True, the
\* later children are not called and the callbacks collected so far are
\* never run; False results are dropped; when no child returned True and at
\* least one deferred, the result is a DeferredInput that tries the
\* collected callbacks in their original order and returns True at the
\* first that succeeds, else False; with no deferral the result is False.
C9_ListDispatch ==
    /\ lcCalled = [i \in 1..lcIdx |-> i]
    /\ \A i \in 1..(lcIdx - 1) : lcKids[i] # "true"
    /\ lcDeferred = DeferringKids(lcKids, lcIdx)
    /\ lcResult = None => lcIdx = 0 \/ lcKids[lcIdx] # "true"
    /\ lcResult = "true" => lcIdx >= 1 /\ lcKids[lcIdx] = "true"
    /\ lcResult = "false" =>
          /\ lcIdx = Len(lcKids)
          /\ \A i \in 1..Len(lcKids) : lcKids[i] = "false"
    /\ lcResult = "defer" =>
          /\ lcIdx = Len(lcKids)
          /\ lcDeferred # <<>>
          /\ \A i \in 1..Len(lcKids) : lcKids[i] # "true"
    /\ lcResult # "defer" => lcCbCalled = <<>> /\ lcCbResult = None
    /\ lcCbCalled = SubSeq(lcDeferred, 1, lcCbIdx)
    /\ \A i \in 1..(lcCbIdx - 1) : lcKids[lcDeferred[i]] = "defer_f"
    /\ lcCbResult = None => lcCbIdx = 0 \/ lcKids[lcDeferred[lcCbIdx]] = "defer_f"
    /\ lcCbResult = "true" => lcCbIdx >= 1 /\ lcKids[lcDeferred[lcCbIdx]] = "defer_t"
    /\ lcCbResult = "false" =>
          /\ lcCbIdx = Len(lcDeferred)
          /\ \A i \in 1..Len(lcDeferred) : lcKids[lcDeferred[i]] = "defer_f"

\* a child deferred, the next returned False, the last deferred; the list
\* deferred and its callback succeeded at the second collected callback
C9_Witness ==
    /\ lcResult = "defer"
    /\ lcCbResult = "true"
    /\ lcKids = <<"defer_f", "false", "defer_t">>
    /\ lcCbCalled = <<1, 3>>

\* the overlay registry without the menus of the chain, order kept
RECURSIVE WithoutMenus(_)
WithoutMenus(reg) ==
    IF reg = <<>> THEN <<>>
    ELSE IF Head(reg).c \in Menus THEN WithoutMenus(Tail(reg))
    ELSE <<Head(reg)>> \o WithoutMenus(Tail(reg))

\* C10: popover close cascade.  With the root menu, its submenu and the
\* depth-2 leaf submenu registered, the step in which an entry of the leaf
\* is selected and the leaf closes unregisters the leaf, its parent and the
\* root; the cascade terminates; every other registered overlay stays
\* registered, in its place, and attached.
C10_CloseCascade ==
    [][ selected' = "leaf" /\ Menus \subseteq Range(RegComps(registered_components))
          => /\ registered_components' = WithoutMenus(registered_components)
             /\ ~closeRunaway'
             /\ \A c \in Comps \ Menus :
                   Registered(c) /\ attachedNow[c] => attachedNow'[c]
      ]_vars

\* the leaf's selection has just closed the three menus, all registered until
\* then, and the dialog opened before them is still registered and attached
C10_Witness ==
    /\ selected = "leaf"
    /\ Menus \subseteq Range(detachLog)
    /\ \A m \in Menus : ~Registered(m)
    /\ ~closeRunaway
    /\ \E c \in Comps \ Menus : Registered(c) /\ attachedNow[c]

\* the menus of the chain that are open: registered as overlays
OpenMenus == {m \in Menus : Registered(m)}

\* C11: the popover chain is inert while closing.  While a registered menu
\* of the chain has a delayed close pending, no step schedules the delayed
\* close of another menu of the chain and none opens a further submenu.
C11_ChainInertWhileClosing ==
    [][ (\E m \in OpenMenus : closecb[m])
          => /\ \A k \in Menus : closecb'[k] => closecb[k]
             /\ built' \subseteq built
      ]_vars

\* C12: popover delayed selection.  The selection callback of an animated
\* menu is invoked by the 12th call of the menu's tick() after the
\* selection and by no earlier one, at most once; a menu with a selection
\* pending does not leave the registry without its callback having been
\* invoked (unless the scene is torn down or the application removes the
\* menu); the callback of a menu that is not animated is invoked during
\* input handling; and the step that invokes a callback leaves no menu of
\* the chain registered.
C12_DelayedSelection ==
    [][ \A m \in Menus :
          /\ Count(callbackLog', m) <= 1
          /\ m \in Range(callbackLog') =>
                /\ \A k \in Menus : ~Registered(k)'
                /\ IF animated[m]
                   THEN pc = "tickreg" /\ ticksSince'[m] = CloseDelay
                   ELSE pc = "dispatch"
          /\ closecb[m] /\ Registered(m) /\ ~Registered(m)' /\ pc \notin {"top", "tick"}
                => m \in Range(callbackLog')
      ]_vars

\* the open submenus below menu m: the registered menus that reach m by
\* their parent links
RECURSIVE Below(_, _)
Below(m, k) ==
    /\ pparent[k] # None
    /\ (pparent[k] = m \/ Below(m, pparent[k]))
OpenSubmenus(m) == {k \in OpenMenus : Below(m, k)}

\* C13: Popover focus loss.  A registered menu that is not closing is
\* offered an event.  A submenu (a menu with a parent) that receives a
\* Defocus event unregisters itself and its own open submenus and leaves its
\* parent registered; a root menu that receives an Escape key or a Defocus
\* event no entry handles unregisters itself and its chain; a root menu
\* that receives a mouse click inside its own area, which selects no entry,
\* stays registered.
C13_PopoverFocusLoss ==
    [][ \A m \in OpenMenus :
          (/\ pc = "dispatch"
           /\ inputQueue # <<>>
           /\ Head(inputQueue) = m
           /\ ~IsClosing(World, m))
          => /\ (pparent[m] # None /\ received' = "defocus")
                  => /\ ~Registered(m)'
                     /\ \A k \in OpenSubmenus(m) : ~Registered(k)'
                     /\ Registered(pparent[m]) => Registered(pparent[m])'
             /\ (pparent[m] = None /\ received' \in {"esc", "defocus"})
                  => \A k \in {m} \cup OpenSubmenus(m) : ~Registered(k)'
             /\ (/\ pparent[m] = None
                 /\ received' = "mouse"
                 /\ callbackLog' = <<>>)
                  => Registered(m)'
      ]_vars

\* a submenu has just closed on a Defocus event and its parent is still
\* registered
C13_Witness ==
    /\ received = "defocus"
    /\ offered # <<>>
    /\ offered[Len(offered)][1] = "sub"
    /\ "sub" \in Range(detachLog)
    /\ ~Registered("sub")
    /\ Registered("root")

\* C14: Dirty is cleared by render.  Every component whose render has just
\* completed, the containers included, reports dirty false, and the dirty of
\* no component goes from false to true except by a property setter that
\* changes an observable value.
C14_DirtyClearedByRender ==
    [][ /\ \A c \in wRan' : ~WDirty(c)'
        /\ \A c \in WComps : (~WDirty(c) /\ WDirty(c)') => wSet' ]_vars

\* C15: Dirty-driven redraw.  In a cycle, components are rendered only when
\* the forced-repaint flag is set or some base or overlay component reports
\* dirty; when neither holds the render phase renders no component.
C15_DirtyDrivenRedraw ==
    [][ pc = "render"
        => /\ renderLog' # <<>> => (dirty \/ sawDirty')
           /\ (~dirty /\ ~sawDirty') => (renderLog' = <<>> /\ location' = location)
      ]_vars

\* a pass was made because a component reported dirty, the flag not set
C15_Witness ==
    /\ pc = "input"
    /\ sawDirty
    /\ Len(renderLog) > 1

\* the registry entry of overlay c
PlEntry(c) == plReg[CHOOSE i \in 1..Len(plReg) : plReg[i].c = c]

\* C16: Overlay render order.  In a render pass every base component is
\* rendered before any overlay, the overlays are rendered in registration
\* order, and an overlay with a parent is rendered at its stored location
\* moved by the top and left of the parent's cached location, cut to the
\* screen.
C16_OverlayRenderOrder ==
    LET nb == Len(PlBases)
    IN /\ \A i \in 1..Len(plLog) :
             IF i <= nb THEN plLog[i].c = PlBases[i]
             ELSE plLog[i].c = plReg[i - nb].c
       /\ \A i \in (nb + 1)..Len(plLog) :
             LET e == PlEntry(plLog[i].c)
                 p == IF e.parent = None THEN NoRect ELSE plLoc[e.parent]
             IN p # NoRect
                => /\ plLog[i].at.top =
                         Min(Max(e.loc.top + p.top, 0), plScreen.bottom)
                   /\ plLog[i].at.bottom =
                         Max(Min(e.loc.bottom + p.top, plScreen.bottom), 0)
                   /\ plLog[i].at.left =
                         Min(Max(e.loc.left + p.left, 0), plScreen.right)
                   /\ plLog[i].at.right =
                         Max(Min(e.loc.right + p.left, plScreen.right), 0)

\* a pass has rendered the base component and then two overlays, the second
\* one beside its parent overlay and cut off by the edge of the screen
C16_Witness ==
    /\ plPc = 0
    /\ Len(plLog) = Len(PlBases) + 2
    /\ PlEntry("o2").parent = "o1"
    /\ plLoc["o1"] # NoRect
    /\ plLoc["o1"].top > 0
    /\ plLog[Len(plLog)].at.bottom = plScreen.bottom
    /\ PlEntry("o2").loc.bottom + plLoc["o1"].top > plScreen.bottom

\* C17: Mouse hit-testing in _handle_input.  A Mouse event inside the
\* cached location reaches handle_input as it is; one outside it reaches
\* handle_input as a Defocus event with the same button; with no cached
\* location handle_input is not called and the result is False; Keyboard,
\* Scroll and Defocus events are forwarded unchanged.  So handle_input never
\* sees a Mouse event with coordinates outside the cached location.
C17_MouseHitTesting ==
    /\ hEvent.kind = "mouse" =>
          IF hLoc = NoRect THEN hSeen = NoEvent /\ hResult = "false"
          ELSE IF /\ hLoc.top <= hEvent.y /\ hEvent.y < hLoc.bottom
                  /\ hLoc.left <= hEvent.x /\ hEvent.x < hLoc.right
               THEN hSeen = hEvent
               ELSE hSeen = [kind |-> "defocus", button |-> hEvent.button]
    /\ hEvent.kind \in {"key", "scroll", "defocus"} => hSeen = hEvent
    /\ hSeen.kind = "mouse" =>
          /\ hLoc # NoRect
          /\ hLoc.top <= hSeen.y /\ hSeen.y < hLoc.bottom
          /\ hLoc.left <= hSeen.x /\ hSeen.x < hLoc.right

\* a click on the line just below the component reached it as a Defocus
\* event
C17_Witness ==
    /\ hEvent.kind = "mouse"
    /\ hLoc # NoRect
    /\ hEvent.y = hLoc.bottom
    /\ hEvent.x = hLoc.left
    /\ hSeen.kind = "defocus"
    /\ hSeen.button = hEvent.button

\* the callback invocations a behaviour made in the last _handle_input call
CallsBy(class) == SelectSeq(hCalls, LAMBDA call : call.by = class)

\* C18: Hotkeyable matches case-insensitively.  With a hotkey configured, a
\* Keyboard event whose character equals the hotkey ignoring case invokes
\* the callback with (self, KEY) and returns its result when truthy, or
\* returns True when no callback is set; any other character and every
\* other event is chained to the next behaviour without a call.
C18_HotkeyIgnoresCase ==
    /\ (hSeen.kind = "key" /\ hHotkey # None) =>
          IF Lower(hSeen.character) = hHotkey
          THEN IF hCallback
               THEN /\ CallsBy("Hotkeyable") = <<[by |-> "Hotkeyable", button |-> "KEY"]>>
                    /\ hAnswer => hResult = "true"
               ELSE hCalls = <<>> /\ hResult = "true"
          ELSE CallsBy("Hotkeyable") = <<>>
    /\ hSeen.kind # "key" => CallsBy("Hotkeyable") = <<>>

\* C19: Clickable.  A Mouse event with a callback set invokes the callback
\* exactly once with (self, button); a truthy result is returned, a falsy
\* one lets the event fall through, in the end to False; with no callback
\* set a Mouse event is reported handled; no other event makes the Clickable
\* behaviour invoke the callback.
C19_Clickable ==
    /\ hSeen.kind = "mouse" =>
          IF hCallback
          THEN /\ hCalls = <<[by |-> "Clickable", button |-> hSeen.button]>>
               /\ hResult = IF hAnswer THEN "true" ELSE "false"
          ELSE hCalls = <<>> /\ hResult = "true"
    /\ hSeen.kind # "mouse" => CallsBy("Clickable") = <<>>

\* the callback was invoked for a click, refused it, and the event fell
\* through to False
C19_Witness ==
    /\ hSeen.kind = "mouse"
    /\ hCallback
    /\ Len(hCalls) = 1
    /\ ~hAnswer
    /\ hResult = "false"

\* the thread is inside its "with self.lock:"
InRender == lPcR \in {"visible", "draw", "mark", "release"}
InSetter == lPcS \in {"mark", "store", "release"}

\* C20: Render/setter atomicity.  A setter on another thread and a render
\* of the same label are never inside each other; and whenever neither is
\* running, if what the stored text and visibility would show differs from
\* what the last completed render drew, dirty is true.
C20_RenderSetterAtomicity ==
    /\ ~(InRender /\ InSetter)
    /\ (lPcR = "idle" /\ lPcS = "idle" /\ Shown(lText, lVisible) # lDrawn)
          => ~lRendered

\* the setter is called with a new text while a render has drawn the old
\* one and still holds the lock
C20_Witness ==
    /\ lLock = "render"
    /\ lPcR = "mark"
    /\ lPcS = "acquire"
    /\ lArg.prop = "text"
    /\ lArg.val # lText
    /\ lDrawn # None

\* ------------------------------------------------------------------------
\* C21: every read-modify-write of a component's state and dirty flag is
\* guarded by its mutex, so that no interleaving of a setter called by
\* another thread with handle_input of the main loop loses a dirty mark or
\* an edit: once both have finished, the component is dirty whenever its
\* state differs from what the last render drew.
\* ------------------------------------------------------------------------
SiState == [selected |-> siSelected, focused |-> siFocused, visible |-> siVisible]

C21_GuardedReadModifyWrite ==
    (siPcS = "idle" /\ siPcH = "idle" /\ SiState # siDrawn) => siChanged

\* ------------------------------------------------------------------------
\* C22: every entry of the registry that has a parent has a location, and
\* register_component called with a parent and no location raises and
\* leaves the registry, the forced-repaint flag and the attachment of the
\* component (and of every other) as they were.
\* ------------------------------------------------------------------------
C22_RegistryInvariant ==
    [][/\ \A i \in 1..Len(registered_components') :
             registered_components'[i].parent # None
                => registered_components'[i].loc
       /\ (regCall'.parent # None /\ ~regCall'.loc)
             => /\ raised'
                /\ registered_components' = registered_components
                /\ dirty' = dirty
                /\ attachedNow' = attachedNow
                /\ children' = children]_vars

\* the call raised with an overlay in the registry and no repaint pending
C22_Witness ==
    /\ raised
    /\ regCall.parent # None /\ ~regCall.loc
    /\ registered_components # <<>>
    /\ ~dirty

\* ------------------------------------------------------------------------
\* C23: clip never yields a negative extent: for all rectangles A and B
\* with integer edges, A.clip(B).width >= 0 and A.clip(B).height >= 0.
\* ------------------------------------------------------------------------
C23_ClipExtentNonNegative ==
    clOut # NoRect => Width(clOut) >= 0 /\ Height(clOut) >= 0

\* ------------------------------------------------------------------------
\* C25: the break offsets partition the text: for any string, width W > 0
\* and start position they are strictly ascending and each lies in
\* 1..len(string), so that the slices between consecutive offsets
\* concatenate to the string, no character dropped or duplicated.
\* ------------------------------------------------------------------------
RECURSIVE Concat(_)
Concat(ss) == IF ss = <<>> THEN <<>> ELSE Head(ss) \o Concat(Tail(ss))

C25_WrapOffsetsPartition ==
    wpDone =>
       /\ \A k \in 1..Len(wpPoints) : wpPoints[k] \in 1..Len(wpString)
       /\ \A k \in 2..Len(wpPoints) : wpPoints[k - 1] < wpPoints[k]
       /\ Concat(Chunks(wpString, wpPoints)) = wpString

\* ------------------------------------------------------------------------
\* C24: word-wrap line length, for a draw that starts at row 0, column 0 on
\* a surface W > 0 wide.
\* ------------------------------------------------------------------------
Lines == Chunks(wpString, wpPoints)

\* a line without the spaces, tabs and newline it ends with
RECURSIVE Stripped(_)
Stripped(line) ==
    IF line # <<>> /\ (Blank(line[Len(line)]) \/ line[Len(line)] = "\n")
    THEN Stripped(SubSeq(line, 1, Len(line) - 1)) ELSE line

SingleToken(line) == \A i \in 1..Len(line) : ~Blank(line[i]) /\ line[i] # "\n"

\* C24 as amended: every line delimited by the break offsets has at most W
\* characters before the whitespace it ends with (the whitespace or
\* newline a line is broken at stays on that line).
C24_WrapLineLength ==
    (wpDone /\ wpStartY = 0 /\ wpStartX = 0)
       => \A k \in 1..Len(Lines) : Len(Stripped(Lines[k])) <= wpWidth

\* C24 as claimed: every line delimited by the break offsets has length
\* <= W, except a line that is a single token longer than W.
C24_WrapLineLengthWhole ==
    (wpDone /\ wpStartY = 0 /\ wpStartX = 0)
       => \A k \in 1..Len(Lines) :
             Len(Lines[k]) <= wpWidth \/ SingleToken(Lines[k])

\* a wrapped string one of whose lines is full before the whitespace it
\* was broken at
C24_Witness ==
    /\ wpDone /\ wpStartY = 0 /\ wpStartX = 0
    /\ Len(wpPoints) >= 2
    /\ \E k \in 1..Len(Lines) :
          Len(Stripped(Lines[k])) = wpWidth /\ Len(Lines[k]) > wpWidth

\* ------------------------------------------------------------------------
\* C26: a visible list of n >= 1 children and no fixed size allots each
\* child s = max(1, floor(extent / n)) along the list: child i (from 0)
\* gets [i*s, min((i+1)*s, extent)), children with i*s >= extent are not
\* rendered, the ranges are pairwise disjoint and inside the container;
\* 3 children in height 9 get height 3 at offsets 0, 3, 6.
\* ------------------------------------------------------------------------
\* the range along the list of a rectangle a child was given
Along(rect) ==
    IF lyDir = "top_to_bottom" THEN <<rect.top, rect.bottom>>
    ELSE <<rect.left, rect.right>>
Across(rect) ==
    IF lyDir = "top_to_bottom" THEN <<rect.left, rect.right>>
    ELSE <<rect.top, rect.bottom>>

C26_ListLayout ==
    (lyDone /\ lyVisible /\ lyN >= 1 /\ ~lyGiven) =>
       LET extent == Extent(lyDir, lyHeight, lyWidth)
           s == Max(1, extent \div lyN)
           shown == {i \in 0..(lyN - 1) : i * s < extent}
       IN /\ Len(lyAllot) = Cardinality(shown)
          /\ \A i \in shown :
                /\ i + 1 \in 1..Len(lyAllot)
                /\ Along(lyAllot[i + 1]) = <<i * s, Min((i + 1) * s, extent)>>
                /\ Across(lyAllot[i + 1])
                      = <<0, Extent(lyDir, lyWidth, lyHeight)>>
          /\ \A j, k \in 1..Len(lyAllot) :
                j < k => Along(lyAllot[j])[2] <= Along(lyAllot[k])[1]
          /\ \A k \in 1..Len(lyAllot) :
                0 <= Along(lyAllot[k])[1] /\ Along(lyAllot[k])[2] <= extent
          /\ (lyN = 3 /\ extent = 9) =>
                [k \in 1..3 |-> Along(lyAllot[k])] = <<<<0, 3>>, <<3, 6>>, <<6, 9>>>>

\* a list with more children than lines: the first ones get a line each,
\* the others are not rendered
C26_Witness ==
    /\ lyDone /\ lyVisible /\ ~lyGiven
    /\ lyN >= 2
    /\ Len(lyAllot) >= 1
    /\ Len(lyAllot) < lyN

\* ------------------------------------------------------------------------
\* C27: formatted_string_length is the number of characters outside <...>
\* tags, each of the escapes &lt; &gt; &amp; counting as one character;
\* 'plain' gives 5 and '<red>hi</red>' gives 2.
\* ------------------------------------------------------------------------
Angle(ch) == ch \in {"<", ">"}

\* position i of str belongs to a tag: a "<", then characters other than
\* "<" and ">", then a ">"
InTag(str, i) ==
    \E j \in 1..i, k \in i..Len(str) :
       /\ str[j] = "<" /\ str[k] = ">"
       /\ \A m \in (j + 1)..(k - 1) : ~Angle(str[m])

\* an escape starts at position i of str
EscapeAt(str, i, esc) ==
    /\ i + Len(esc) - 1 <= Len(str)
    /\ SubSeq(str, i, i + Len(esc) - 1) = esc

VisibleLength(str) ==
    LET outside == {i \in 1..Len(str) : ~InTag(str, i)}
        starts(esc) == {i \in outside : EscapeAt(str, i, esc)}
    IN Cardinality(outside)
       - 3 * Cardinality(starts(EscLt)) - 3 * Cardinality(starts(EscGt))
       - 4 * Cardinality(starts(EscAmp))

C27_FormattedLength ==
    fsDone =>
       /\ fsLength = VisibleLength(fsString)
       /\ (fsString = FmtPlain) => fsLength = 5
       /\ (fsString = FmtRedHi) => fsLength = 2

\* a string with a tag and an escape outside it was measured
C27_Witness ==
    /\ fsDone
    /\ \E i \in 1..Len(fsString) : InTag(fsString, i)
    /\ \E i \in 1..Len(fsString) :
          ~InTag(fsString, i) /\ EscapeAt(fsString, i, EscAmp)

\* ------------------------------------------------------------------------
\* C28: across lookups through any surfaces, a pair once in the cache
\* keeps its id, a lookup returns the id of the cache, distinct pairs have
\* distinct ids, init_pair succeeds at most once for a pair, and the pair
\* of the driver with that id holds the colours of the pair.
\* ------------------------------------------------------------------------
C28_ColorCacheStable ==
    [][/\ \A k \in DOMAIN colorTable :
             k \in DOMAIN colorTable' /\ colorTable'[k] = colorTable[k]
       /\ ~crLast'.raised =>
             /\ ColorKey(crLast'.fore, crLast'.back) \in DOMAIN colorTable'
             /\ crLast'.id = colorTable'[ColorKey(crLast'.fore, crLast'.back)]
       /\ \A k1, k2 \in DOMAIN colorTable' :
             k1 # k2 => colorTable'[k1] # colorTable'[k2]
       /\ \A k \in ColorKeys : crInits'[k] <= 1
       /\ \A f, b \in Colors :
             ColorKey(f, b) \in DOMAIN colorTable' =>
                crPairs'[colorTable'[ColorKey(f, b)]]
                   = <<CursesColor(f), CursesColor(b)>>
      ]_vars

\* a pair allocated earlier is looked up through the sub-surface and comes
\* from the cache, which holds three pairs
C28_Witness ==
    /\ crLast.surface = "sub"
    /\ crLast.cached
    /\ crLast.fore = "RED" /\ crLast.back = "BLUE"
    /\ Cardinality(DOMAIN colorTable) = 4

\* ------------------------------------------------------------------------
\* C29: a lookup of (NONE, NONE) gives pair id 0 and neither allocates a
\* slot nor initialises a pair of the driver.
\* ------------------------------------------------------------------------
C29_NoneIsDefaultPair ==
    (crLast.fore = "NONE" /\ crLast.back = "NONE") =>
       /\ ~crLast.raised => crLast.id = 0
       /\ ColorKey("NONE", "NONE") \notin DOMAIN colorTable
       /\ crInits[ColorKey("NONE", "NONE")] = 0

\* ------------------------------------------------------------------------
\* C30: when a driver call of a _render raised, _render still returns
\* without raising, every driver call of render was made and render
\* reached its dirty-clearing step.
\* ------------------------------------------------------------------------
C30_DriverFaultsSwallowed ==
    (ftPc = "done" /\ \E i \in 1..Len(ftLog) : ~ftLog[i].ok) =>
       /\ ftOutcome = "returned"
       /\ ftRendered
       /\ Len(ftLog) = 1 + Len(RenderScript(ftKind, ftExpandable, ftLines))

\* ------------------------------------------------------------------------
\* C31: when a child that was asked returned a DeferredInput and no child
\* claimed the event, the composite returns a DeferredInput, and a
\* callback of a child is called only while the event is unclaimed.
\* ------------------------------------------------------------------------
C31_CompositesPreserveDeferral ==
    cpPc # "idle" =>
       /\ (/\ \E i \in 1..cpAsked : Deferral(cpKids[i])
           /\ \A i \in 1..Len(cpKids) : cpKids[i] # "true")
             => cpResult = "defer"
       /\ cpClaimed => \A i \in 1..Len(cpCalls) : cpCalls[i] = 0

\* ------------------------------------------------------------------------
\* C32: while a rendered dialog is the newest overlay, every event is
\* consumed by it: neither the handle_input of a component of the base
\* tree nor Scene.handle_input is called for the event.
\* ------------------------------------------------------------------------
C32_DialogModal ==
    (dgRendered /\ dgPc \in {"components", "scene", "idle"}
        /\ dgEvent # NoEvent) =>
       /\ dgOffered = <<"dialog">>
       /\ ~dgSceneAsked
       /\ dgPc # "overlays" => dgHandled

\* a click outside the rendered dialog was dispatched to the end
C32_Witness ==
    /\ dgRendered /\ dgPc = "idle"
    /\ dgEvent.kind = "mouse" /\ dgEvent.on = -1
    /\ dgOffered = <<"dialog">>

\* ------------------------------------------------------------------------
\* C35: Escape in a dialog calls the callback of the option named by
\* escape_option, with the name of that option, wherever the option is in
\* the list, and no other option's callback; with no escape_option it
\* calls none.
\* ------------------------------------------------------------------------
C35_EscapeOption ==
    (dgPc = "components" /\ dgEvent.kind = "key" /\ dgEvent.character = "esc") =>
       dgCalls = IF dgEscape = None THEN <<>>
                 ELSE <<[of |-> dgEscape, name |-> dgEscape]>>

\* ------------------------------------------------------------------------
\* C33: the first line of get_wrap_points is as wide as the surface less
\* the starting column and every later line as wide as the surface, so
\* the wrap points of a draw that starts at column 0 are those of a draw
\* at row 0, whatever its starting row.
\* ------------------------------------------------------------------------
C33_FirstLineWidth ==
    wpDone => wpPoints = WrapLoop(wpString, 0, <<>>, wpStartX, wpWidth)

C36_OneClickPerPress ==
    [][/\ \A b \in Buttons : clicks'[b] <= 1
       /\ lastInput'.kind \in {"press", "release"} =>
             \A b \in Buttons \ {lastInput'.button} :
                mousestate'[b] = mousestate[b]]_vars

\* ------------------------------------------------------------------------
\* C37: once exit() has been called the exit request stays the pending one
\* whatever was pending before and whatever change_scene is called after;
\* the transition at the top of the next cycle destroys the scene, detaches
\* every overlay and base component and empties the registry; no scene is
\* created or attached in its place, nothing is requested or attached
\* while there is no scene, and the cycle ends with run() returning.
\* ------------------------------------------------------------------------
C37_ExitWins ==
    [][/\ (exitCalled' /\ pc' # "create") => next_scene' = ExitScene
       /\ (exitCalled /\ pc = "top" /\ pc' = "create") =>
             /\ scene' = ExitScene /\ next_scene' = None
             /\ destroyed' = (scene # None)
             /\ registered_components' = <<>>
             /\ \A c \in Comps : ~attachedNow'[c]
       /\ (pc = "create" /\ scene = ExitScene) =>
             /\ scene' = None /\ components' = <<>> /\ next_scene' = None
             /\ constructed' = 0
             /\ \A c \in Comps : ~attachedNow'[c]
       /\ (scene = None /\ pc \in {"tick", "render", "input", "end"}) =>
             /\ scene' = None /\ components' = <<>> /\ next_scene' = None
             /\ registered_components' = <<>> /\ constructed' = 0
             /\ pc = "end" => pc' = "done"
      ]_vars

\* a change_scene made after exit() was ignored: the transition took the
\* exit request, and no scene object was constructed
C37_Witness ==
    /\ pc = "create" /\ scene = ExitScene /\ exitCalled
    /\ requests >= 1 /\ constructed = 0
    /\ \E c \in Comps : detachCalls[c] > 0

\* ------------------------------------------------------------------------
\* C38: whatever keys and setter calls a text input has had, with or
\* without renders, its cursor is within 0..len(text), and a Backspace
\* that found the cursor beyond 0 removed exactly one character.
\* ------------------------------------------------------------------------
C38_CursorInText ==
    /\ 0 <= tiCursor /\ tiCursor <= Len(tiText)
    /\ (tiLast.op = "KEY_BACKSPACE" /\ tiFocused /\ tiLast.cursor > 0) =>
          Len(tiText) = tiLast.len - 1

\* ------------------------------------------------------------------------
\* C39: a call of a setter (the text of a label, the visible of a label,
\* a list or a border) that changes the stored value leaves the component
\* dirty, and no call of a setter makes a dirty component clean.
\* ------------------------------------------------------------------------
C39_SettersMarkDirty ==
    [][wRan' = {} =>
         /\ \A c \in WComps : wVisible'[c] # wVisible[c] => WDirty(c)'
         /\ \A l \in LabelSet : wText'[l] # wText[l] => LabelDirty(l)'
         /\ \A c \in WComps : WDirty(c) => WDirty(c)'
      ]_vars

\* the locks thread t holds
HeldBy(t) == {l \in Locks : lkHolder[l] = t}

\* the components above l in the tree
RECURSIVE Ancestors(_)
Ancestors(l) ==
    IF LockParent[l] = "none" THEN {}
    ELSE {LockParent[l]} \cup Ancestors(LockParent[l])

\* the lock thread t is about to take is not one it holds, and every lock
\* it holds is the lock of an ancestor
ParentFirst(t) ==
    (lkProg[t] # <<>> /\ Head(lkProg[t]).k = "acquire") =>
       /\ lkHolder[Head(lkProg[t]).l] # t
       /\ HeldBy(t) \subseteq Ancestors(Head(lkProg[t]).l)

\* ------------------------------------------------------------------------
\* C40: the scheduler thread and an external thread take the locks parent
\* before child and never one they hold, and every render pass,
\* handle_input and setter call that was started completes.
\* ------------------------------------------------------------------------
C40_NoLockDeadlock ==
    /\ [](ParentFirst("sched") /\ ParentFirst("ext"))
    /\ (lkProg["sched"] # <<>>) ~> (lkProg["sched"] = <<>>)
    /\ (lkProg["ext"] # <<>>) ~> (lkProg["ext"] = <<>>)

\* the render pass holds the lock of the tab and waits for the lock of the
\* button, which a setter holds together with the lock of the label
C40_Witness ==
    /\ lkHolder["tab"] = "sched"
    /\ lkHolder["button"] = "ext" /\ lkHolder["label"] = "ext"
    /\ Head(lkProg["sched"]) = Acquire("button")

====
